---- MODULE Spec2Model ----
(***************************************************************************)
(* Model of the route-analysis backend (backend/services):                 *)
(*   NetworkAnalyzer      - graph, nearest node, Dijkstra service area     *)
(*   ServiceAreaAnalyzer  - served / unserved population blocks            *)
(*   MapMatcher           - per-point nearest-segment matching             *)
(*   RoadAnalyzer         - length by surface / administration             *)
(*                                                                         *)
(* Geometry.  The network and the population blocks live on one projected  *)
(* axis (metres, integers): a node is a coordinate, a route and a block    *)
(* are intervals, and the Euclidean distance is the absolute difference.   *)
(* "g.intersects(h.buffer(r))" is "distance(g, h) <= r".  The map matcher  *)
(* works on a planar grid (see that section).                              *)
(***************************************************************************)
EXTENDS Integers, Sequences, FiniteSets, TLC

VARIABLES
    rnc_rows,       \* road_network.shp: whether it exists, and its rows
    graph,          \* NetworkAnalyzer.graph: None, or the nx.Graph
    node_coords,    \* NetworkAnalyzer.node_coords: node id -> coordinate
    node_ids,       \* NetworkAnalyzer.node_ids: the order of the spatial index
    kd_tie,         \* which of several equidistant nodes the KD-tree returns
    route,          \* the projected route geometry, <<from, to>>
    runs,           \* max_distance -> the maps calculate_service_area returned
    last,           \* the result of the last polygon / point query
    network_analyzer, \* ServiceAreaAnalyzer.network_analyzer (its fields are above)
    manzanas_gdf,   \* ServiceAreaAnalyzer.manzanas_gdf: None, or index -> row
    municipios_gdf, \* ServiceAreaAnalyzer.municipios_gdf: None, or name -> geometry
    sa_call,        \* the arguments of the last ServiceAreaAnalyzer.analyze
    sa_result,      \* what it returned
    matcher,        \* a MapMatcher: gpx, rnc_gdf, buffer_m, buffer_deg
    match_run,      \* MapMatcher.match: its position, locals and result
    road_analyzer,  \* a RoadAnalyzer: rnc_gdf
    road_call,      \* the arguments of the last RoadAnalyzer.analyze
    road_result,    \* what it returned
    agg_run,        \* _aggregate_population: its position, locals and result
    routes_db,      \* routes.json: route id -> route record
    gpx_files,      \* data/gpx: route id -> the track points of <id>.gpx
    results_files,  \* results: route id -> the analysis of <id>_results.json
    shapefiles,     \* the base shapefiles that are loaded
    requests,       \* the requests being served: position, locals, response
    rnc_upload,     \* the number of the road network on disk (0: none)
    network_analyzer_instance,  \* the NetworkAnalyzer singleton, or None
    marco_gdf,      \* the localities of a LocalityDetector
    ld_call,        \* the arguments of the last LocalityDetector.detect
    ld_result,      \* what it returned
    unserved_manzanas_cache,    \* app.py: municipio -> unserved blocks
    served_manzanas_cache,      \* app.py: municipio -> served blocks
    dash_computed,  \* municipio -> what its last dashboard request computed
    dash_response   \* the last answer of a manzanas endpoint

netVars == <<rnc_rows, graph, node_coords, node_ids, kd_tie, route, runs, last>>

saVars == <<network_analyzer, manzanas_gdf, municipios_gdf, sa_call, sa_result>>

mmVars == <<matcher, match_run>>

raVars == <<road_analyzer, road_call, road_result>>

\* The state of the remaining components.
appVars == <<routes_db, gpx_files, results_files, shapefiles, requests, rnc_upload,
            network_analyzer_instance>>

ldVars == <<marco_gdf, ld_call, ld_result>>

dashVars == <<unserved_manzanas_cache, served_manzanas_cache, dash_computed, dash_response>>

extVars == <<agg_run, appVars, ldVars, dashVars>>

vars == <<netVars, saVars, mmVars, raVars, extVars>>

------------------------------------------------------------------------------
(* Arithmetic helpers *)

Abs(x) == IF x < 0 THEN -x ELSE x

Min(a, b) == IF a <= b THEN a ELSE b

Max(a, b) == IF a >= b THEN a ELSE b

SetMin(S) == CHOOSE x \in S : \A y \in S : x <= y

SetMax(S) == CHOOSE x \in S : \A y \in S : x >= y

Range(f) == {f[x] : x \in DOMAIN f}

\* All orders in which the elements of a finite set can be listed.
RECURSIVE Orders(_)
Orders(S) ==
    IF S = {} THEN {<<>>}
    ELSE UNION {{<<x>> \o o : o \in Orders(S \ {x})} : x \in S}

\* Python's None.  A value that may be None is a record with a kind.
None == [kind |-> "None"]

IsNone(x) == x.kind = "None"

\* The empty mapping (a dict with no key).
EmptyMap == [n \in {} |-> 0]

------------------------------------------------------------------------------
(* Bounds and the worlds the inputs are drawn from *)

\* Number of node identifiers of the road network.
NumNodes == 4

NodeIds == 1..NumNodes

\* LONGITUD of a chain segment i -- i+1 (0: no such segment).
ChainWeights == {0, 300, 500}

\* LONGITUD of the segment 1 -- 3 (0: no such segment).
ChordWeights == {0, 400, 700}

\* Coordinates of the nodes: evenly spaced, or pairwise coincident.
Layouts == {[i \in NodeIds |-> 400 * (i - 1)],
            [i \in NodeIds |-> 800 * ((i - 1) \div 2)]}

\* Routes: on the network, a short one, one whose first sample is exactly
\* 500 m from the last node, and one entirely beyond it.
Routes == {<<0, 1000>>, <<100, 500>>,
           <<800 * ((NumNodes - 1) \div 2) + 500, 800 * ((NumNodes - 1) \div 2) + 1500>>,
           <<400 * (NumNodes - 1) + 600, 400 * (NumNodes - 1) + 1600>>}

\* max_distance values of the calls.
MaxDistances == {300, 700}

\* Query points of is_point_in_service_area.
QueryPoints == {0, 200, 350, 600, 900}

------------------------------------------------------------------------------
(* NetworkAnalyzer: construction *)

\* The rows of the road network shapefile: the chain segments i -- i+1 and
\* the chord 1 -- 3 that are present, each drawn between the coordinates
\* the layout gives its end nodes.
WorldRows(chain, chord, layout) ==
    LET Row(u, v, w) == [UNION_INI |-> u, UNION_FIN |-> v, LONGITUD |-> w,
                         geometry |-> [kind |-> "LineString",
                                      coords |-> <<layout[u], layout[v]>>]]
        RECURSIVE Chain(_)
        Chain(i) == IF i >= NumNodes THEN <<>>
                    ELSE (IF chain[i] # 0 THEN <<Row(i, i + 1, chain[i])>> ELSE <<>>)
                         \o Chain(i + 1)
    IN  Chain(1) \o (IF chord # 0 /\ NumNodes >= 3 THEN <<Row(1, 3, chord)>> ELSE <<>>)

\* nx.Graph.add_edge: the edge {u, v} gets this data, replacing what it had.
add_edge(g, u, v, data) ==
    [e \in DOMAIN g \cup {{u, v}} |-> IF e = {u, v} THEN data ELSE g[e]]

\* dict: d[k] = val, whatever d held for k.
SetAlways(d, k, val) ==
    [x \in DOMAIN d \cup {k} |-> IF x = k THEN val ELSE d[x]]

\* dict: d[k] = val only when k is not yet a key.
SetDefault(d, k, val) ==
    IF k \in DOMAIN d THEN d ELSE [x \in DOMAIN d \cup {k} |-> IF x = k THEN val ELSE d[x]]

\* The keys of a dict in insertion order, after inserting k.
KeysAppend(keys, k) ==
    IF \E i \in 1..Len(keys) : keys[i] = k THEN keys ELSE Append(keys, k)

\* A test of the coordinates that lets a single coordinate through.
NoCoords(coords) == Len(coords) < 1

\* "if len(coords) < 2: continue"
TooFewCoords(coords) == Len(coords) < 2

\* The loop of _load_and_build_network over the rows from the i-th on.
RECURSIVE BuildLoop(_, _, _)
BuildLoop(rows, i, st) ==
    IF i > Len(rows) THEN st
    ELSE LET row == rows[i]
             geom == row.geometry
         IN  IF IsNone(geom) THEN BuildLoop(rows, i + 1, st)
             ELSE IF TooFewCoords(geom.coords) THEN BuildLoop(rows, i + 1, st)
             ELSE LET coords == geom.coords
                      nc1 == SetDefault(st.node_coords, row.UNION_INI, coords[1])
                      nc2 == SetDefault(nc1, row.UNION_FIN, coords[Len(coords)])
                      ks  == KeysAppend(KeysAppend(st.keys, row.UNION_INI), row.UNION_FIN)
                      g   == add_edge(st.graph, row.UNION_INI, row.UNION_FIN,
                                      [weight |-> row.LONGITUD, geometry |-> geom])
                  IN  BuildLoop(rows, i + 1, [graph |-> g, node_coords |-> nc2, keys |-> ks])

\* NetworkAnalyzer.__init__ with _load_and_build_network and
\* _build_spatial_index: the analyzer's fields after construction.
load_and_build_network(shp) ==
    IF ~shp.exists
    THEN [graph |-> None, node_coords |-> EmptyMap, node_ids |-> <<>>]
    ELSE LET st == BuildLoop(shp.rows, 1, [graph |-> EmptyMap, node_coords |-> EmptyMap,
                                           keys |-> <<>>])
         IN  [graph |-> [kind |-> "Graph", edge |-> st.graph],
              node_coords |-> st.node_coords, node_ids |-> st.keys]

------------------------------------------------------------------------------
(* NetworkAnalyzer: queries *)

\* The edges and nodes of a graph (none when there is no graph).
Edges(g) == IF IsNone(g) THEN {} ELSE DOMAIN g.edge

GraphNodes(g) == UNION Edges(g)

Neighbors(g, v) == {u \in GraphNodes(g) : {u, v} \in Edges(g)}

\* coord_tree is None until _build_spatial_index has run.
CoordTreeIsNone == IsNone(graph)

\* cKDTree.query: the index of a node at the least distance; which one of
\* several at that distance is the tree's own choice, fixed for a tree.
KDQuery(ids, coords, tie, p) ==
    LET near == {i \in 1..Len(ids) :
                    \A j \in 1..Len(ids) : Abs(p - coords[ids[i]]) <= Abs(p - coords[ids[j]])}
    IN  IF tie = "first" THEN SetMin(near) ELSE SetMax(near)

\* find_nearest_node: the pair (node, dist), or None without a spatial index.
find_nearest_node(p) ==
    IF CoordTreeIsNone THEN None
    ELSE LET idx == KDQuery(node_ids, node_coords, kd_tie, p)
         IN  [kind |-> "Nearest", node |-> node_ids[idx], dist |-> Abs(p - node_coords[node_ids[idx]])]

\* total_length / sample_distance samples, at least 10.
NumSamples(r) == Max(Abs(r[2] - r[1]) \div 100, 10)

\* route_line.interpolate(i / num_samples, normalized=True); the routes of
\* the world have their samples on whole metres.
SamplePoint(r, i) == r[1] + ((r[2] - r[1]) * i) \div NumSamples(r)

\* Nodes nearer than this to a sample point seed the search.
NodeCutoff == 500

\* The nearest node of every sample point, however far it is.
NearestNodesNoCutoff(r) ==
    IF CoordTreeIsNone THEN {}
    ELSE {find_nearest_node(SamplePoint(r, i)).node : i \in 0..NumSamples(r)}

\* find_nearest_nodes_on_route: the set nodes_found.
find_nearest_nodes_on_route(r) ==
    IF CoordTreeIsNone THEN {}
    ELSE {find_nearest_node(SamplePoint(r, i)).node :
            i \in {j \in 0..NumSamples(r) :
                      find_nearest_node(SamplePoint(r, j)).dist < NodeCutoff}}

\* A cutoff that drops a path of exactly the cutoff length.
BelowCutoff(d, cutoff) == d < cutoff

\* cutoff=max_distance: a path longer than the cutoff is dropped.
WithinCutoff(d, cutoff) == d <= cutoff

\* One round of nx's Dijkstra loop: the unsettled node with the least
\* tentative distance is settled and its neighbours are relaxed; a path
\* longer than the cutoff is dropped.
RECURSIVE DijkstraLoop(_, _, _, _)
DijkstraLoop(g, dist, seen, cutoff) ==
    LET fringe == DOMAIN seen \ DOMAIN dist
    IN  IF fringe = {} THEN dist
        ELSE LET v  == CHOOSE x \in fringe : \A y \in fringe : seen[x] <= seen[y]
                 d2 == [n \in DOMAIN dist \cup {v} |-> IF n = v THEN seen[v] ELSE dist[n]]
                 Via(u) == seen[v] + g.edge[{u, v}].weight
                 upd == {u \in Neighbors(g, v) :
                            /\ WithinCutoff(Via(u), cutoff)
                            /\ u \notin DOMAIN d2
                            /\ (u \notin DOMAIN seen \/ Via(u) < seen[u])}
                 s2 == [n \in DOMAIN seen \cup upd |->
                            IF n \in upd THEN Via(n) ELSE seen[n]]
             IN  DijkstraLoop(g, d2, s2, cutoff)

\* nx.single_source_dijkstra_path_length(graph, source, cutoff, 'weight').
single_source_dijkstra_path_length(g, source, cutoff) ==
    DijkstraLoop(g, EmptyMap, [n \in {source} |-> 0], cutoff)

\* A merge that keeps the distance of the first source that reached a node.
KeepFirst(all_reachable, distances) ==
    [n \in DOMAIN all_reachable \cup DOMAIN distances |->
        IF n \in DOMAIN all_reachable THEN all_reachable[n] ELSE distances[n]]

\* A merge that keeps the greatest distance to each node.
KeepMaximum(all_reachable, distances) ==
    [n \in DOMAIN all_reachable \cup DOMAIN distances |->
        IF n \notin DOMAIN all_reachable THEN distances[n]
        ELSE IF n \in DOMAIN distances /\ distances[n] > all_reachable[n]
             THEN distances[n]
             ELSE all_reachable[n]]

\* "Keep minimum distance to each node": one source's distances merged in.
KeepMinimum(all_reachable, distances) ==
    [n \in DOMAIN all_reachable \cup DOMAIN distances |->
        IF n \notin DOMAIN all_reachable THEN distances[n]
        ELSE IF n \in DOMAIN distances /\ distances[n] < all_reachable[n]
             THEN distances[n]
             ELSE all_reachable[n]]

\* The loop of calculate_service_area over the route nodes, in list order.
RECURSIVE SourceLoop(_, _, _, _)
SourceLoop(g, order, max_distance, all_reachable) ==
    IF order = <<>> THEN all_reachable
    ELSE LET source_node == Head(order)
         IN  IF source_node \notin GraphNodes(g)
             THEN SourceLoop(g, Tail(order), max_distance, all_reachable)
             ELSE SourceLoop(g, Tail(order), max_distance,
                    KeepMinimum(all_reachable,
                        single_source_dijkstra_path_length(g, source_node, max_distance)))

\* calculate_service_area: the map all_reachable (service_area_nodes is its
\* key set), for one order of list(nodes_found).
calculate_service_area(order, max_distance) ==
    IF IsNone(graph) THEN EmptyMap
    ELSE IF order = <<>> THEN EmptyMap
    ELSE SourceLoop(graph, order, max_distance, EmptyMap)

\* buffer_distance=50
DefaultBuffer == 50

\* A polygon made of the nodes' points only.
PolygonOfNodesOnly(service_area_nodes, buffer_distance) ==
    IF service_area_nodes = {} THEN None
    ELSE [kind |-> "Polygon", edges |-> {},
          points |-> {n \in service_area_nodes : n \in DOMAIN node_coords},
          buffer |-> buffer_distance]

\* A polygon that also takes the edges with a single end in the set.
PolygonOfTouchingEdges(service_area_nodes, buffer_distance) ==
    IF service_area_nodes = {} THEN None
    ELSE [kind |-> "Polygon",
          edges |-> {e \in Edges(graph) : e \cap service_area_nodes # {}},
          points |-> {n \in service_area_nodes : n \in DOMAIN node_coords},
          buffer |-> buffer_distance]

\* get_service_area_polygon: None, or the geometries that are merged and
\* buffered: the edges with both ends in the set, and the nodes' points.
get_service_area_polygon(service_area_nodes, buffer_distance) ==
    IF service_area_nodes = {} THEN None
    ELSE LET edge_geoms == {e \in Edges(graph) : e \subseteq service_area_nodes}
             points == {n \in service_area_nodes : n \in DOMAIN node_coords}
         IN  IF edge_geoms = {} /\ points = {} THEN None
             ELSE [kind |-> "Polygon", edges |-> edge_geoms, points |-> points,
                   buffer |-> buffer_distance]

\* float('inf')
Infinity == "inf"

\* A test that walks to the reachable node giving the least total.
IsPointAnyReachable(p, service_area_nodes, node_distances, max_distance) ==
    LET nearest == find_nearest_node(p)
        Total(n) == Abs(p - node_coords[n]) + node_distances[n]
    IN  IF service_area_nodes = {}
        THEN [nearest |-> nearest, reachable |-> FALSE, dist |-> Infinity]
        ELSE LET best == SetMin({Total(n) : n \in service_area_nodes})
             IN  [nearest |-> nearest, reachable |-> best <= max_distance, dist |-> best]

\* is_point_in_service_area: the node find_nearest_node gave, and the pair
\* returned.
is_point_in_service_area(p, service_area_nodes, node_distances, max_distance) ==
    LET nearest == find_nearest_node(p)
    IN  IF nearest.node \in service_area_nodes
        THEN LET network_dist == IF nearest.node \in DOMAIN node_distances
                                 THEN node_distances[nearest.node] ELSE 0
                 total_dist == nearest.dist + network_dist
             IN  [nearest |-> nearest, reachable |-> total_dist <= max_distance,
                  dist |-> total_dist]
        ELSE [nearest |-> nearest, reachable |-> FALSE, dist |-> Infinity]

------------------------------------------------------------------------------
(* NetworkAnalyzer: the state machine *)

NoResult == [op |-> "none"]

\* No NetworkAnalyzer has been made.
IdleNet ==
    /\ rnc_rows = [exists |-> FALSE, rows |-> <<>>]
    /\ graph = None
    /\ node_coords = EmptyMap
    /\ node_ids = <<>>
    /\ kd_tie = "first"
    /\ route = <<0, 0>>
    /\ runs = [d \in MaxDistances |-> {}]
    /\ last = NoResult

\* No ServiceAreaAnalyzer has been made.
IdleSA ==
    /\ network_analyzer = None
    /\ manzanas_gdf = None
    /\ municipios_gdf = None
    /\ sa_call = NoResult
    /\ sa_result = NoResult

\* No MapMatcher and no RoadAnalyzer has been made.
IdleMM ==
    /\ matcher = None
    /\ match_run = NoResult

IdleRA ==
    /\ road_analyzer = None
    /\ road_call = NoResult
    /\ road_result = NoResult

\* Nothing else is running.
IdleApp ==
    /\ routes_db = EmptyMap
    /\ gpx_files = EmptyMap
    /\ results_files = EmptyMap
    /\ shapefiles = {}
    /\ requests = EmptyMap
    /\ rnc_upload = 0
    /\ network_analyzer_instance = None

\* No LocalityDetector has been made.
IdleLD ==
    /\ marco_gdf = None
    /\ ld_call = NoResult
    /\ ld_result = NoResult

\* No dashboard has been requested: the caches are empty dicts.
IdleDash ==
    /\ unserved_manzanas_cache = EmptyMap
    /\ served_manzanas_cache = EmptyMap
    /\ dash_computed = EmptyMap
    /\ dash_response = NoResult

IdleExt ==
    /\ agg_run = NoResult
    /\ IdleApp
    /\ IdleLD
    /\ IdleDash

\* A road network of a single segment of 1000 m, from node 1 at 0 to node 2
\* at 1000.
SingleEdgeShapefile ==
    [exists |-> TRUE,
     rows |-> <<[UNION_INI |-> 1, UNION_FIN |-> 2, LONGITUD |-> 1000,
                 geometry |-> [kind |-> "LineString", coords |-> <<0, 1000>>]]>>]

\* The road networks of the world: no shapefile, or one with some rows.
WorldShapefiles ==
    {[exists |-> FALSE, rows |-> <<>>], SingleEdgeShapefile} \cup
    {[exists |-> TRUE, rows |-> WorldRows(chain, chord, layout)] :
        chain \in [1..(NumNodes - 1) -> ChainWeights], chord \in ChordWeights,
        layout \in Layouts}

InitNet ==
    /\ rnc_rows \in {shp \in WorldShapefiles : shp.exists => shp.rows # <<>>}
    /\ LET built == load_and_build_network(rnc_rows)
       IN  /\ graph = built.graph
           /\ node_coords = built.node_coords
           /\ node_ids = built.node_ids
    /\ kd_tie \in {"first", "last"}
    /\ route \in Routes
    /\ runs = [d \in MaxDistances |-> {}]
    /\ last = NoResult
    /\ IdleSA
    /\ IdleMM
    /\ IdleRA
    /\ IdleExt

\* A calculate_service_area that drops the nodes it did not reach from the
\* node-id list.
CalculateServiceAreaPruning ==
    \E d \in MaxDistances :
        \E order \in Orders(find_nearest_nodes_on_route(route)) :
            LET reached == calculate_service_area(order, d)
            IN  /\ runs' = [runs EXCEPT ![d] = @ \cup {reached}]
                /\ node_ids' = SelectSeq(node_ids, LAMBDA n : n \in DOMAIN reached)
                /\ UNCHANGED <<rnc_rows, graph, node_coords, kd_tie, route, last, saVars, mmVars, raVars, extVars>>

\* A request runs calculate_service_area(route, max_distance); the list of
\* route nodes comes out of a set, in any order.
CalculateServiceArea ==
    \E d \in MaxDistances :
        \E order \in Orders(find_nearest_nodes_on_route(route)) :
            /\ runs' = [runs EXCEPT ![d] = @ \cup {calculate_service_area(order, d)}]
            /\ UNCHANGED <<rnc_rows, graph, node_coords, node_ids, kd_tie, route, last, saVars, mmVars, raVars, extVars>>

\* A request runs get_service_area_polygon on the nodes of an earlier result.
GetServiceAreaPolygon ==
    \E d \in MaxDistances :
        \E m \in runs[d] :
            /\ last' = [op |-> "polygon", max_distance |-> d, nodes |-> DOMAIN m,
                        polygon |-> get_service_area_polygon(DOMAIN m, DefaultBuffer)]
            /\ UNCHANGED <<rnc_rows, graph, node_coords, node_ids, kd_tie, route, runs, saVars, mmVars, raVars, extVars>>

\* A request runs is_point_in_service_area on an earlier result.
IsPointInServiceArea ==
    \E d \in MaxDistances, p \in QueryPoints :
        \E m \in runs[d] :
            /\ ~CoordTreeIsNone
            /\ last' = [op |-> "point", max_distance |-> d, point |-> p,
                        node_distances |-> m,
                        result |-> is_point_in_service_area(p, DOMAIN m, m, d)]
            /\ UNCHANGED <<rnc_rows, graph, node_coords, node_ids, kd_tie, route, runs, saVars, mmVars, raVars, extVars>>

NextNet ==
    \/ CalculateServiceArea
    \/ GetServiceAreaPolygon
    \/ IsPointInServiceArea

SpecNet == InitNet /\ [][NextNet]_vars

------------------------------------------------------------------------------
(* Claims about NetworkAnalyzer *)

\* The ends and lengths of the simple paths of g that continue from v.
RECURSIVE Walks(_, _, _, _)
Walks(g, v, visited, len) ==
    {<<v, len>>} \cup
    UNION {Walks(g, u, visited \cup {u}, len + g.edge[{u, v}].weight) :
            u \in Neighbors(g, v) \ visited}

\* The seed nodes of the route that are nodes of the graph.
SeedNodes == find_nearest_nodes_on_route(route) \cap GraphNodes(graph)

\* <<node, length>> for every simple path that starts at a seed node.
SeedWalks == UNION {Walks(graph, s, {s}, 0) : s \in SeedNodes}

\* The least length of a path from a seed node to n, among the walks W.
ShortestPathLength(W, n) == SetMin({w[2] : w \in {x \in W : x[1] = n}})

\* C1: the map calculate_service_area returns has as keys exactly the nodes
\* whose shortest weighted path from some seed node is at most the maximum
\* distance, and as values the least such length over the seeds.
C1_ServiceAreaIsShortestPaths ==
    \A d \in MaxDistances : \A m \in runs[d] :
        IF IsNone(graph) THEN m = EmptyMap
        ELSE LET W == SeedWalks
             IN  /\ DOMAIN m = {n \in GraphNodes(graph) :
                                  \E w \in W : w[1] = n /\ ShortestPathLength(W, n) <= d}
                 /\ \A n \in DOMAIN m : m[n] = ShortestPathLength(W, n)

\* C1 witness: a result holding a node that is no seed, at a distance > 0,
\* while another node of the graph is left out.
C1_Witness ==
    \E d \in MaxDistances : \E m \in runs[d] :
        /\ \E n \in DOMAIN m : m[n] > 0 /\ n \notin SeedNodes
        /\ \E n \in GraphNodes(graph) : n \notin DOMAIN m
        /\ Cardinality(SeedNodes) >= 2

\* The nodes at the least distance from p.
TrulyNearest(p) ==
    {n \in DOMAIN node_coords :
        \A k \in DOMAIN node_coords : Abs(p - node_coords[n]) <= Abs(p - node_coords[k])}

\* C2: is_point_in_service_area is true iff the point's nearest node is
\* reachable and the distance to it plus its network distance is at most
\* the maximum distance; with an unreachable nearest node it is false with
\* an infinite distance.
C2_PointTestUsesNearestNode ==
    last.op = "point" =>
        LET n == last.result.nearest.node
            m == last.node_distances
            walk == Abs(last.point - node_coords[n])
        IN  /\ n \in TrulyNearest(last.point)
            /\ last.result.reachable <=>
                 (n \in DOMAIN m /\ walk + m[n] <= last.max_distance)
            /\ n \in DOMAIN m => last.result.dist = walk + m[n]
            /\ n \notin DOMAIN m => last.result.dist = Infinity

\* C2 witness: a point whose nearest node is not reachable is refused
\* although a reachable node is within the maximum distance of it.
C2_Witness ==
    /\ last.op = "point"
    /\ last.result.nearest.node \notin DOMAIN last.node_distances
    /\ ~last.result.reachable
    /\ \E k \in DOMAIN last.node_distances :
          Abs(last.point - node_coords[k]) + last.node_distances[k] <= last.max_distance

\* C8: with a greater maximum distance the reachable nodes are a superset,
\* and a node of both results has the same distance in both.
C8_MonotoneInMaxDistance ==
    \A d1 \in MaxDistances, d2 \in MaxDistances :
        d1 <= d2 =>
            \A m1 \in runs[d1], m2 \in runs[d2] :
                /\ DOMAIN m1 \subseteq DOMAIN m2
                /\ \A n \in DOMAIN m1 : m1[n] = m2[n]

\* C8 witness: two results for different maximum distances, the greater one
\* reaching strictly more nodes.
C8_Witness ==
    \E d1 \in MaxDistances, d2 \in MaxDistances :
        /\ d1 < d2
        /\ \E m1 \in runs[d1], m2 \in runs[d2] :
              /\ DOMAIN m1 # {}
              /\ DOMAIN m1 # DOMAIN m2
              /\ \E n \in DOMAIN m1 : m1[n] > 0

\* C9: all runs for one route, graph and maximum distance return the same
\* map, in whatever order the seed nodes are taken.
C9_Deterministic ==
    \A d \in MaxDistances : Cardinality(runs[d]) <= 1

\* C9 witness: a run from several seeds (so several orders) that reached a
\* node two seeds reach at different distances.
C9_Witness ==
    \E d \in MaxDistances : \E m \in runs[d] :
        \E s1 \in SeedNodes, s2 \in SeedNodes, n \in DOMAIN m :
            /\ s1 # s2
            /\ n \in DOMAIN single_source_dijkstra_path_length(graph, s1, d)
            /\ n \in DOMAIN single_source_dijkstra_path_length(graph, s2, d)
            /\ single_source_dijkstra_path_length(graph, s1, d)[n]
                 # single_source_dijkstra_path_length(graph, s2, d)[n]

\* Every sample point of the route is farther than the cutoff from its
\* nearest node.
AllSamplesBeyondCutoff ==
    /\ ~IsNone(graph)
    /\ \A i \in 0..NumSamples(route) :
          find_nearest_node(SamplePoint(route, i)).dist > NodeCutoff

\* C10: a route with every sample beyond the node cutoff gets an empty node
\* set and an empty map, no polygon, and a result that differs from one
\* covering all nodes.
C10_FarRouteGivesEmptyArea ==
    AllSamplesBeyondCutoff =>
        /\ \A d \in MaxDistances : \A m \in runs[d] :
              m = EmptyMap /\ DOMAIN m # GraphNodes(graph)
        /\ last.op = "polygon" => last.nodes = {} /\ IsNone(last.polygon)

\* C10 witness: such a route, after calculate_service_area and
\* get_service_area_polygon have run on it.
C10_Witness ==
    /\ AllSamplesBeyondCutoff
    /\ \E d \in MaxDistances : runs[d] # {}
    /\ last.op = "polygon"

\* The scenario: the single-edge network under a track from 0 to 1000.
ScenarioHolds == rnc_rows = SingleEdgeShapefile /\ route = <<0, 1000>>

\* C11: a 1 km track on a graph of a single 1000 m edge, max distance
\* 700 m: both ends of the edge are seeds, the reachable map holds both
\* ends at distance 0, and the polygon is built from the whole edge.
C11_SingleEdgeScenario ==
    ScenarioHolds =>
        /\ NumSamples(route) = 10
        /\ find_nearest_nodes_on_route(route) = {1, 2}
        /\ \A m \in runs[700] : m = (1 :> 0 @@ 2 :> 0)
        /\ (last.op = "polygon" /\ last.max_distance = 700) =>
              /\ ~IsNone(last.polygon)
              /\ last.polygon.edges = {{1, 2}}
              /\ graph.edge[{1, 2}].geometry.coords = <<0, 1000>>
              /\ last.polygon.points = {1, 2}

\* C11 witness: the scenario's service area was calculated for 700 m and
\* its polygon was built.
C11_Witness ==
    /\ ScenarioHolds
    /\ runs[700] # {}
    /\ last.op = "polygon" /\ last.max_distance = 700

\* C19: find_nearest_node, find_nearest_nodes_on_route,
\* calculate_service_area, get_service_area_polygon and
\* is_point_in_service_area leave the graph, the node coordinates, the
\* node-id list and the KD-tree as they were, whatever they return.
C19_QueriesLeaveNetworkUnchanged ==
    [][/\ graph' = graph
       /\ node_coords' = node_coords
       /\ node_ids' = node_ids
       /\ kd_tie' = kd_tie]_vars

\* C19 witness: a service area with nodes was calculated, a point was found
\* out of reach, and the network is still the one built from the shapefile.
C19_Witness ==
    /\ \E d \in MaxDistances : \E m \in runs[d] : m # EmptyMap
    /\ last.op = "point"
    /\ ~last.result.reachable
    /\ ~IsNone(graph)
    /\ graph = load_and_build_network(rnc_rows).graph
    /\ node_coords = load_and_build_network(rnc_rows).node_coords
    /\ node_ids = load_and_build_network(rnc_rows).node_ids

\* The graph's edges with both ends, and with exactly one end, among nodes.
EdgesWithin(nodes) ==
    {e \in DOMAIN graph.edge : \A n \in e : n \in nodes}

EdgesAcross(nodes) ==
    {e \in DOMAIN graph.edge : (\E n \in e : n \in nodes) /\ (\E n \in e : n \notin nodes)}

\* C24: for a non-empty set of reachable nodes get_service_area_polygon
\* builds the polygon from the geometry of exactly the edges with both ends
\* in the set and a point for every node of the set (an edge with a single
\* end in it adds nothing); it returns no polygon iff the set is empty.
C24_PolygonOfReachableNodes ==
    last.op = "polygon" =>
        /\ IsNone(last.polygon) <=> last.nodes = {}
        /\ last.nodes # {} =>
              /\ last.polygon.edges = EdgesWithin(last.nodes)
              /\ last.polygon.edges \cap EdgesAcross(last.nodes) = {}
              /\ last.polygon.points = last.nodes

\* C24 witness: a polygon was built for a set of nodes that holds both ends
\* of one edge and a single end of another.
C24_Witness ==
    /\ last.op = "polygon"
    /\ ~IsNone(last.polygon)
    /\ EdgesWithin(last.nodes) # {}
    /\ EdgesAcross(last.nodes) # {}

\* C24 witness of the other half: no polygon for an empty set.
C24_EmptyWitness ==
    /\ last.op = "polygon"
    /\ last.nodes = {}
    /\ IsNone(last.polygon)

------------------------------------------------------------------------------
(* ServiceAreaAnalyzer: the data *)

\* Geometries on the axis are intervals <<lo, hi>>.
IntervalDistance(a, b) == Max(0, Max(b[1] - a[2], a[1] - b[2]))

\* a.intersects(b)
Intersects(a, b) == IntervalDistance(a, b) = 0

\* a.intersects(b.buffer(r))
IntersectsBuffer(a, b, r) == IntervalDistance(a, b) <= r

\* a.centroid (the blocks of the world have theirs on a whole metre)
Centroid(a) == (a[1] + a[2]) \div 2

\* Cell values of the census columns: None, NaN, a number, or a string
\* (the sequence of its characters).
NoneCell == [kind |-> "None"]

NaNCell == [kind |-> "nan"]

Num(n) == [kind |-> "int", n |-> n]

Str(chars) == [kind |-> "str", chars |-> chars]

DigitChars == <<"0", "1", "2", "3", "4", "5", "6", "7", "8", "9">>

IsDigit(c) == \E i \in 1..10 : DigitChars[i] = c

DigitValue(c) == (CHOOSE i \in 1..10 : DigitChars[i] = c) - 1

\* str.replace(',', '')
RemoveCommas(chars) == SelectSeq(chars, LAMBDA c : c # ",")

\* The value of a sequence of digits.
RECURSIVE DigitsValue(_)
DigitsValue(chars) ==
    IF chars = <<>> THEN 0
    ELSE 10 * DigitsValue(SubSeq(chars, 1, Len(chars) - 1)) + DigitValue(chars[Len(chars)])

\* int(float(text)) for the texts of the world (digits with at most one
\* point): whether float() accepts the text, and the whole part.
FloatParses(chars) ==
    /\ \E i \in 1..Len(chars) : IsDigit(chars[i])
    /\ \A i \in 1..Len(chars) : IsDigit(chars[i]) \/ chars[i] = "."
    /\ Cardinality({i \in 1..Len(chars) : chars[i] = "."}) <= 1

WholePart(chars) ==
    IF \E i \in 1..Len(chars) : chars[i] = "."
    THEN DigitsValue(SubSeq(chars, 1, (CHOOSE i \in 1..Len(chars) : chars[i] = ".") - 1))
    ELSE DigitsValue(chars)

\* to_int of _aggregate_population.
to_int(val) ==
    IF val.kind = "None" THEN 0
    ELSE IF val.kind = "nan" THEN 0
    ELSE IF val.kind = "int" THEN val.n
    ELSE IF val.chars = <<"*">> \/ val.chars = <<>> THEN 0
    ELSE IF FloatParses(RemoveCommas(val.chars)) THEN WholePart(RemoveCommas(val.chars))
    ELSE 0

\* A row of manzanas.shp: 20 census columns (the counts at positions 6, 7,
\* 9, 11, 13, 15, 17 and 19, counted from 0) and the geometry.
CensusRow(geom, total, fem, masc, a0, a15, a30, a60, disc) ==
    [geometry |-> geom,
     cols |-> [k \in 1..20 |->
                CASE k = 7 -> total [] k = 8 -> fem [] k = 10 -> masc
                  [] k = 12 -> a0 [] k = 14 -> a15 [] k = 16 -> a30
                  [] k = 18 -> a60 [] k = 20 -> disc
                  [] OTHER -> NoneCell]]

\* The blocks of the world.  1 and 5 are crossed by the short route, 2 lies
\* 40 m beyond its end, 3 and 4 are away from it; 5 is a long block whose
\* centroid is far from the route; 6 and 7 are outside every municipality.
WorldBlocks ==
    [i \in 1..8 |->
        CASE i = 1 -> CensusRow(<<480, 560>>, Num(100), Num(60), Num(40),
                                Num(20), Num(30), Num(40), Num(10), Num(0))
          [] i = 2 -> CensusRow(<<540, 640>>, Str(<<"1", ",", "2", "0", "0">>), Num(700),
                                Num(500), Str(<<"*">>), Num(400), Num(600), Num(200),
                                Str(<<"4", "5", ".", "7">>))
          [] i = 3 -> CensusRow(<<700, 900>>, Num(50), Num(25), Num(25),
                                Num(10), Num(10), Num(20), Num(10), Num(7))
          [] i = 4 -> CensusRow(<<1500, 1700>>, Num(0), NoneCell, NaNCell,
                                Str(<<>>), Str(<<"N", "/", "D">>), Num(0), Num(0), Num(0))
          [] i = 5 -> CensusRow(<<450, 1950>>, Num(300), Num(150), Num(150),
                                Num(80), Num(70), Num(100), Num(50), Num(33))
          [] i = 6 -> CensusRow(<<3000, 3100>>, Num(3), Num(2), Num(1),
                                Num(1), Num(1), Num(1), Num(0), Num(1))
          [] i = 7 -> CensusRow(<<3200, 3300>>, Num(800), Num(400), Num(400),
                                Num(200), Num(200), Num(200), Num(200), Num(1))
          [] OTHER -> CensusRow(<<1240, 2200>>, Num(0), Num(0), Num(0),
                                Num(0), Num(0), Num(0), Num(0), Num(0))]

\* manzanas_gdf: a GeoDataFrame, index -> row.
GeoDataFrame(index) == [kind |-> "GeoDataFrame", index |-> index]

BlockRow(i) == WorldBlocks[i]

\* municipalities.shp: the name column and the geometry.
WorldMunicipios == [kind |-> "GeoDataFrame",
                    geometry |-> [name \in {"Apan", "Tula"} |->
                                    IF name = "Apan" THEN <<0, 600>> ELSE <<650, 2000>>]]

\* municipio_name arguments ("": None, no municipality).
MunicipioNames == {"", "APAN", "Tula", "Otro"}

\* str.upper() on the names of the world.
Upper(name) ==
    CASE name \in {"Apan", "APAN"} -> "APAN"
      [] name \in {"Tula", "TULA"} -> "TULA"
      [] name = "Otro" -> "OTRO"
      [] OTHER -> name

\* _get_municipio_geometry: the geometry of the rows whose name matches
\* without regard to case, or None.
get_municipio_geometry(municipio_name) ==
    IF IsNone(municipios_gdf) THEN None
    ELSE LET matches == {n \in DOMAIN municipios_gdf.geometry : Upper(n) = Upper(municipio_name)}
         IN  IF matches = {} THEN None
             ELSE [kind |-> "Geometry",
                   geom |-> municipios_gdf.geometry[CHOOSE n \in matches : TRUE]]

------------------------------------------------------------------------------
(* ServiceAreaAnalyzer: analyze *)

\* The sum of f[x] over the x of a finite set.
RECURSIVE SumOver(_, _)
SumOver(S, f) ==
    IF S = {} THEN 0
    ELSE LET x == CHOOSE y \in S : TRUE IN f[x] + SumOver(S \ {x}, f)

\* round(a / b, 0) for a >= 0, b > 0, a tie going to the even neighbour.
RoundDiv(a, b) ==
    LET q == a \div b
        r == a % b
    IN  IF 2 * r < b THEN q
        ELSE IF 2 * r > b THEN q + 1
        ELSE IF q % 2 = 0 THEN q ELSE q + 1

\* cols[k] if len(cols) > k else None, and the row's value in that column
\* (0 when there is no such column).
ColumnValue(row, k) ==
    IF Len(row.cols) > k THEN to_int(row.cols[k + 1]) ELSE 0

\* The age bands of piramide_poblacional and their columns.
AgeBands == {"0-14", "15-29", "30-59", "60+"}

AgeColumn(band) ==
    CASE band = "0-14" -> 11 [] band = "15-29" -> 13 [] band = "30-59" -> 15 [] OTHER -> 17

AgeLabel(band) ==
    CASE band = "0-14" -> "0-14 años" [] band = "15-29" -> "15-29 años"
      [] band = "30-59" -> "30-59 años" [] OTHER -> "60 años y más"

\* A percentage cut to two decimals instead of rounded.
PorcentajeTruncated(disc, total) ==
    IF total > 0 THEN (disc * 10000) \div total ELSE 0

\* round(discapacidad / poblacion_total * 100, 2) under the guard
\* "poblacion_total > 0", in hundredths of a percent.
Porcentaje(disc, total) ==
    IF total > 0 THEN RoundDiv(disc * 10000, total) ELSE 0

\* _aggregate_population over the rows with the given index.  The
\* percentage is kept in hundredths of a percent (round(..., 2)).
aggregate_population(index) ==
    LET Col(k) == SumOver(index, [i \in index |-> ColumnValue(BlockRow(i), k)])
        total == Col(6)
        disc  == Col(19)
    IN  [kind |-> "stats",
         poblacion_total |-> total,
         poblacion_femenina |-> Col(7),
         poblacion_masculina |-> Col(9),
         piramide_poblacional |->
             [band \in AgeBands |-> [total |-> Col(AgeColumn(band)),
                                     label |-> AgeLabel(band)]],
         discapacidad |-> [total |-> disc,
                           porcentaje |-> Porcentaje(disc, total)]]

\* A dict with one more key.
With(d, key, val) == [k \in DOMAIN d \cup {key} |-> IF k = key THEN val ELSE d[k]]

\* _empty_stats
empty_stats ==
    [kind |-> "stats",
     poblacion_total |-> 0,
     poblacion_femenina |-> 0,
     poblacion_masculina |-> 0,
     manzanas_count |-> 0,
     piramide_poblacional |->
         [band \in AgeBands |-> [total |-> 0, label |-> AgeLabel(band)]],
     discapacidad |-> [total |-> 0, porcentaje |-> 0]]

\* _empty_result
empty_result(error_msg) ==
    [success |-> FALSE, error |-> error_msg, stats |-> empty_stats, unserved_stats |-> None]

\* The edge's geometry on the axis, and whether a block meets the service
\* area polygon (the merged edges and node points, buffered).
EdgeExtent(e) ==
    LET coords == graph.edge[e].geometry.coords
    IN  <<SetMin(Range(coords)), SetMax(Range(coords))>>

IntersectsPolygon(geom, polygon) ==
    \/ \E e \in polygon.edges : IntersectsBuffer(geom, EdgeExtent(e), polygon.buffer)
    \/ \E n \in polygon.points :
          IntersectsBuffer(geom, <<node_coords[n], node_coords[n]>>, polygon.buffer)

\* The direct corridor: route_projected.buffer(50).
DirectBuffer == 50

\* A network analysis that serves every block meeting the polygon.
AnalyzePolygonOnly(order, buffer_distance_m) ==
    LET direct_indices == {i \in manzanas_gdf.index :
                              IntersectsBuffer(BlockRow(i).geometry, route, DirectBuffer)}
        node_distances == calculate_service_area(order, buffer_distance_m)
        service_area_nodes == DOMAIN node_distances
        service_area_polygon == get_service_area_polygon(service_area_nodes, 50)
    IN  IF service_area_nodes = {} \/ IsNone(service_area_polygon) THEN direct_indices
        ELSE direct_indices \cup
             {i \in manzanas_gdf.index :
                IntersectsPolygon(BlockRow(i).geometry, service_area_polygon)}

\* A network analysis that puts every block to the centroid test.
AnalyzeCentroidOnly(order, buffer_distance_m) ==
    LET node_distances == calculate_service_area(order, buffer_distance_m)
        service_area_nodes == DOMAIN node_distances
        service_area_polygon == get_service_area_polygon(service_area_nodes, 50)
    IN  IF service_area_nodes = {} \/ IsNone(service_area_polygon) THEN {}
        ELSE {i \in manzanas_gdf.index :
                /\ IntersectsPolygon(BlockRow(i).geometry, service_area_polygon)
                /\ is_point_in_service_area(Centroid(BlockRow(i).geometry),
                        service_area_nodes, node_distances, buffer_distance_m).reachable}

\* _analyze_with_network: the index of the blocks it returns.
analyze_with_network(order, buffer_distance_m) ==
    LET direct_indices == {i \in manzanas_gdf.index :
                              IntersectsBuffer(BlockRow(i).geometry, route, DirectBuffer)}
        node_distances == calculate_service_area(order, buffer_distance_m)
        service_area_nodes == DOMAIN node_distances
        service_area_polygon == get_service_area_polygon(service_area_nodes, 50)
    IN  IF service_area_nodes = {} THEN direct_indices
        ELSE IF IsNone(service_area_polygon) THEN direct_indices
        ELSE LET in_service_area == {i \in manzanas_gdf.index :
                    IntersectsPolygon(BlockRow(i).geometry, service_area_polygon)}
             IN  direct_indices \cup
                 {i \in in_service_area \ direct_indices :
                    is_point_in_service_area(Centroid(BlockRow(i).geometry),
                        service_area_nodes, node_distances, buffer_distance_m).reachable}

\* "self.network_analyzer and self.network_analyzer.graph": an analyzer,
\* with a graph that has a node.
NetworkAvailable ==
    /\ ~IsNone(network_analyzer)
    /\ ~IsNone(graph)
    /\ GraphNodes(graph) # {}

\* A filter that lets every block through.
NoMunicipioFilter(index, municipio_geom) == index

\* manzanas_in_buffer[manzanas_in_buffer.intersects(municipio_geom)]
FilterByMunicipio(index, municipio_geom) ==
    {i \in index : Intersects(BlockRow(i).geometry, municipio_geom)}

\* ServiceAreaAnalyzer.analyze
analyze(order, buffer_distance_m, municipio_name, use_network) ==
    IF IsNone(manzanas_gdf) THEN empty_result("Manzanas shapefile not loaded")
    ELSE
    LET in_reach == IF use_network /\ NetworkAvailable
                    THEN analyze_with_network(order, buffer_distance_m)
                    ELSE {i \in manzanas_gdf.index :
                            IntersectsBuffer(BlockRow(i).geometry, route, buffer_distance_m)}
        municipio_geom == get_municipio_geometry(municipio_name)
        filtering == municipio_name # "" /\ ~IsNone(municipios_gdf) /\ ~IsNone(municipio_geom)
        manzanas_in_buffer == IF filtering
                              THEN FilterByMunicipio(in_reach, municipio_geom.geom)
                              ELSE in_reach
    IN  IF manzanas_in_buffer = {}
        THEN empty_result("No manzanas found within service area")
        ELSE
        LET stats == With(With(With(aggregate_population(manzanas_in_buffer),
                        "manzanas_count", Cardinality(manzanas_in_buffer)),
                        "buffer_distance_m", buffer_distance_m),
                        "network_analysis", use_network /\ ~IsNone(network_analyzer))
        IN  IF ~filtering
            THEN [success |-> TRUE, stats |-> stats, unserved_stats |-> None,
                  unserved_manzanas_gdf |-> None,
                  served_manzanas_gdf |-> GeoDataFrame(manzanas_in_buffer)]
            ELSE
            LET all_manzanas_in_municipio ==
                    {i \in manzanas_gdf.index :
                        Intersects(BlockRow(i).geometry, municipio_geom.geom)}
                unserved == all_manzanas_in_municipio \ manzanas_in_buffer
                unserved_stats ==
                    IF unserved # {}
                    THEN With(aggregate_population(unserved), "manzanas_count",
                              Cardinality(unserved))
                    ELSE empty_stats
                total_stats == With(aggregate_population(all_manzanas_in_municipio),
                                    "manzanas_count", Cardinality(all_manzanas_in_municipio))
            IN  [success |-> TRUE,
                 stats |-> With(stats, "municipio_total", total_stats),
                 unserved_stats |-> unserved_stats,
                 unserved_manzanas_gdf |-> GeoDataFrame(unserved),
                 served_manzanas_gdf |-> GeoDataFrame(manzanas_in_buffer)]

------------------------------------------------------------------------------
(* ServiceAreaAnalyzer: the state machine *)

\* buffer_distance_m values of the calls.
WalkingDistances == {30, 700}

\* The road networks a ServiceAreaAnalyzer is made on: none, one without a
\* row (cKDTree refuses an empty list: the constructor of NetworkAnalyzer
\* raises), or all chain segments of one length, with or without the chord.
AnalyzerShapefiles ==
    {[exists |-> FALSE, rows |-> <<>>]} \cup
    {[exists |-> TRUE, rows |-> WorldRows([i \in 1..(NumNodes - 1) |-> w], chord, layout)] :
        w \in ChainWeights, chord \in {0, 700}, layout \in Layouts}

\* The blocks manzanas.shp holds: none, all of the world, or all but one.
WorldIndexes ==
    {{}, DOMAIN WorldBlocks} \cup {DOMAIN WorldBlocks \ {i} : i \in DOMAIN WorldBlocks}

\* The routes analysed: the short one and the one beyond the network.
AnalyzedRoutes == {<<100, 500>>, <<400 * (NumNodes - 1) + 600, 400 * (NumNodes - 1) + 1600>>}

InitSA ==
    /\ rnc_rows \in AnalyzerShapefiles
    /\ LET raised == rnc_rows.exists /\ rnc_rows.rows = <<>>
           built == load_and_build_network(rnc_rows)
       IN  /\ network_analyzer = IF raised THEN None ELSE [kind |-> "NetworkAnalyzer"]
           /\ graph = IF raised THEN None ELSE built.graph
           /\ node_coords = built.node_coords
           /\ node_ids = built.node_ids
    /\ kd_tie \in {"first", "last"}
    /\ route \in AnalyzedRoutes
    /\ runs = [d \in MaxDistances |-> {}]
    /\ last = NoResult
    /\ manzanas_gdf \in {None} \cup {GeoDataFrame(index) : index \in WorldIndexes}
    /\ municipios_gdf \in {None, WorldMunicipios}
    /\ sa_call = NoResult
    /\ sa_result = NoResult
    /\ IdleMM
    /\ IdleRA
    /\ IdleExt

\* A request runs ServiceAreaAnalyzer.analyze on the route.
Analyze ==
    \E d \in WalkingDistances, name \in MunicipioNames, use_network \in BOOLEAN :
        \E order \in Orders(find_nearest_nodes_on_route(route)) :
            /\ sa_call' = [op |-> "analyze", buffer_distance_m |-> d,
                           municipio_name |-> name, use_network |-> use_network]
            /\ sa_result' = analyze(order, d, name, use_network)
            /\ UNCHANGED <<netVars, network_analyzer, manzanas_gdf, municipios_gdf, mmVars, raVars, extVars>>

NextSA == Analyze

SpecSA == InitSA /\ [][NextSA]_vars

------------------------------------------------------------------------------
(* Claims about ServiceAreaAnalyzer *)

Analyzed == sa_call.op = "analyze" /\ ~IsNone(manzanas_gdf)

\* The served and unserved sets of the result (empty when it has none).
ServedSet ==
    IF "served_manzanas_gdf" \in DOMAIN sa_result
    THEN sa_result.served_manzanas_gdf.index ELSE {}

HasUnservedSet ==
    /\ "unserved_manzanas_gdf" \in DOMAIN sa_result
    /\ ~IsNone(sa_result.unserved_manzanas_gdf)

UnservedSet == IF HasUnservedSet THEN sa_result.unserved_manzanas_gdf.index ELSE {}

\* The blocks that meet the 50 m buffer around the route.
CorridorBlocks ==
    {i \in manzanas_gdf.index : IntervalDistance(BlockRow(i).geometry, route) <= 50}

\* The call named a municipality that resolves to a geometry, and the
\* blocks that meet that municipality.
MunicipioResolves ==
    /\ sa_call.municipio_name # ""
    /\ ~IsNone(get_municipio_geometry(sa_call.municipio_name))

MunicipioBlocks ==
    {i \in manzanas_gdf.index :
        IntervalDistance(BlockRow(i).geometry,
                         get_municipio_geometry(sa_call.municipio_name).geom) = 0}

\* C3 as stated: in every call every block that meets the 50 m buffer
\* around the track is in the served set.
C3_CorridorAlwaysServed_Original ==
    Analyzed => CorridorBlocks \subseteq ServedSet

\* C3 amended: every block that meets the 50 m buffer around the track, and
\* the municipality when a municipality filter resolves, is in the served
\* set whenever the network path is taken or the walking distance is at
\* least 50 m.
C3_CorridorServed ==
    /\ Analyzed
    /\ (sa_call.use_network /\ NetworkAvailable) \/ sa_call.buffer_distance_m >= 50
    => \A i \in CorridorBlocks :
          (MunicipioResolves => i \in MunicipioBlocks) => i \in ServedSet

\* C3 witness: a network analysis with a non-empty Dijkstra area served a
\* corridor block whose centroid fails the node-distance test.
C3_Witness ==
    /\ Analyzed
    /\ sa_call.use_network /\ NetworkAvailable
    /\ LET d == sa_call.buffer_distance_m
           m == calculate_service_area(
                    CHOOSE o \in Orders(find_nearest_nodes_on_route(route)) : TRUE, d)
       IN  /\ DOMAIN m # {}
           /\ \E i \in CorridorBlocks \cap ServedSet :
                ~is_point_in_service_area(Centroid(BlockRow(i).geometry),
                                          DOMAIN m, m, d).reachable

\* The demographic totals of a stats record, field by field.
Totals(stats) ==
    <<stats.poblacion_total, stats.poblacion_femenina, stats.poblacion_masculina,
      stats.piramide_poblacional["0-14"].total,
      stats.piramide_poblacional["15-29"].total,
      stats.piramide_poblacional["30-59"].total,
      stats.piramide_poblacional["60+"].total,
      stats.discapacidad.total>>

\* C4: in a successful result for a municipality that resolves, served and
\* unserved are disjoint, together they are the blocks of the municipality,
\* and every demographic total of served plus unserved is the
\* municipality's.
C4_ServedUnservedPartition ==
    Analyzed /\ MunicipioResolves /\ sa_result.success =>
        /\ HasUnservedSet
        /\ ServedSet \cap UnservedSet = {}
        /\ ServedSet \cup UnservedSet = MunicipioBlocks
        /\ \A k \in 1..8 :
              Totals(sa_result.stats)[k] + Totals(sa_result.unserved_stats)[k]
                = Totals(sa_result.stats.municipio_total)[k]

\* C4 witness: a successful result with served and unserved blocks, where a
\* block within reach lies outside the municipality.
C4_Witness ==
    /\ Analyzed /\ MunicipioResolves /\ sa_result.success
    /\ ServedSet # {} /\ UnservedSet # {}
    /\ sa_result.unserved_stats.poblacion_total > 0
    /\ CorridorBlocks \ MunicipioBlocks # {}

\* C5: called with a municipality that resolves (and has blocks), the
\* result reports as unserved exactly the blocks of the municipality that
\* are not served, with their totals; all of them when none is served.
C5_UnservedReported ==
    Analyzed /\ MunicipioResolves /\ MunicipioBlocks # {} =>
        /\ HasUnservedSet
        /\ UnservedSet = MunicipioBlocks \ ServedSet
        /\ ~IsNone(sa_result.unserved_stats)
        /\ sa_result.unserved_stats.poblacion_total
             = SumOver(UnservedSet, [i \in UnservedSet |-> ColumnValue(BlockRow(i), 6)])

\* The node distances of the call's service area (the same for every
\* order of the route nodes), and whether block i meets its polygon and
\* has its centroid within reach by the node-distance test.
CallDistances ==
    calculate_service_area(CHOOSE o \in Orders(find_nearest_nodes_on_route(route)) : TRUE,
                           sa_call.buffer_distance_m)

MeetsPolygon(i) ==
    IntersectsPolygon(BlockRow(i).geometry,
                      get_service_area_polygon(DOMAIN CallDistances, 50))

CentroidReachable(i) ==
    is_point_in_service_area(Centroid(BlockRow(i).geometry), DOMAIN CallDistances,
                             CallDistances, sa_call.buffer_distance_m).reachable

\* C22: in network mode with a non-empty service area a block outside the
\* 50 m corridor (and inside the municipality asked for, if any) is served
\* iff it meets the service-area polygon and its centroid passes the
\* node-distance test.
C22_ServedIffPolygonAndCentroid ==
    (Analyzed /\ sa_call.use_network /\ NetworkAvailable /\ DOMAIN CallDistances # {}) =>
        \A i \in manzanas_gdf.index \ CorridorBlocks :
            (MunicipioResolves => i \in MunicipioBlocks) =>
                (i \in ServedSet <=> (MeetsPolygon(i) /\ CentroidReachable(i)))

\* C22 witness: one block outside the corridor is served, and another one
\* meets the polygon, fails the centroid test and is not served.
C22_Witness ==
    /\ Analyzed /\ sa_call.use_network /\ NetworkAvailable
    /\ DOMAIN CallDistances # {}
    /\ \E i \in ServedSet \ CorridorBlocks : MeetsPolygon(i) /\ CentroidReachable(i)
    /\ \E i \in manzanas_gdf.index \ (CorridorBlocks \cup ServedSet) :
          MeetsPolygon(i) /\ ~CentroidReachable(i)

\* The blocks within buffer_distance_m of the route in a straight line.
EuclideanBlocks(buffer_distance_m) ==
    {i \in manzanas_gdf.index :
        IntersectsBuffer(BlockRow(i).geometry, route, buffer_distance_m)}

\* C15: a call with use_network=True never computes from the Euclidean
\* buffer: without a usable graph it reports no block as served.
C15_NoEuclideanFallback ==
    (Analyzed /\ sa_call.use_network /\ ~NetworkAvailable /\ sa_call.municipio_name = "")
        => ~(/\ sa_result.success
             /\ EuclideanBlocks(sa_call.buffer_distance_m) # {}
             /\ sa_result.served_manzanas_gdf
                  = GeoDataFrame(EuclideanBlocks(sa_call.buffer_distance_m)))

\* The served set came out of the road-network graph: network analysis was
\* asked for and the analyzer holds a graph with nodes.
GraphUsed ==
    /\ sa_call.use_network
    /\ ~IsNone(network_analyzer)
    /\ ~IsNone(graph)
    /\ GraphNodes(graph) # {}

\* C29: in every successful result of analyze, stats['network_analysis'] is
\* true iff the served set was computed with the road-network graph, and
\* false whenever the straight-line buffer was used, also when
\* use_network=True was asked for and no graph was available.
C29_NetworkFlagTellsTheMode ==
    (Analyzed /\ sa_result.success) =>
        (sa_result.stats["network_analysis"] <=> GraphUsed)

------------------------------------------------------------------------------
(* MapMatcher: geometry *)

(* The matcher works in EPSG:4326 and turns degrees into metres with the   *)
(* factor 111000.  A length of d degrees is kept as the integer            *)
(* 111000 * d * 100: the code's metres, in hundredths.  Coordinates are    *)
(* kept in the same unit, the roads are made of pieces parallel to an      *)
(* axis and every coordinate is a multiple of 10 m, so that two different  *)
(* distances differ by more than a hundredth.                              *)
Metres(m) == 100 * m

P(x, y) == <<Metres(x), Metres(y)>>

LineString(coords) == [kind |-> "LineString", coords |-> coords]

MultiLineString(geoms) == [kind |-> "MultiLineString", geoms |-> geoms]

\* The integer part of the square root of n.
RECURSIVE SqrtSearch(_, _, _)
SqrtSearch(n, lo, hi) ==
    IF lo = hi THEN lo
    ELSE LET mid == (lo + hi + 1) \div 2
         IN  IF mid * mid <= n THEN SqrtSearch(n, mid, hi)
             ELSE SqrtSearch(n, lo, mid - 1)

ISqrt(n) == SqrtSearch(n, 0, 40000)

Clamp(v, lo, hi) == Max(lo, Min(v, hi))

\* The point of the piece from a to b (parallel to an axis) nearest to p.
NearestOnPiece(p, a, b) ==
    <<Clamp(p[1], Min(a[1], b[1]), Max(a[1], b[1])),
      Clamp(p[2], Min(a[2], b[2]), Max(a[2], b[2]))>>

\* point.distance(point)
PointDistance(p, q) ==
    ISqrt((p[1] - q[1]) * (p[1] - q[1]) + (p[2] - q[2]) * (p[2] - q[2]))

\* The pieces of a LineString, and the piece nearest to p (the first of
\* them along the line).
Pieces(line) == 1..(Len(line.coords) - 1)

PieceDistance(p, line, k) ==
    PointDistance(p, NearestOnPiece(p, line.coords[k], line.coords[k + 1]))

NearestPiece(p, line) ==
    LET least == SetMin({PieceDistance(p, line, k) : k \in Pieces(line)})
    IN  SetMin({k \in Pieces(line) : PieceDistance(p, line, k) = least})

\* point.distance(geometry)
GeomDistance(p, geom) ==
    IF geom.kind = "LineString"
    THEN PieceDistance(p, geom, NearestPiece(p, geom))
    ELSE SetMin({PieceDistance(p, geom.geoms[g], NearestPiece(p, geom.geoms[g])) :
                    g \in DOMAIN geom.geoms})

\* line.interpolate(line.project(p)): the nearest point of the line.
ClosestOnLine(p, line) ==
    LET k == NearestPiece(p, line)
    IN  NearestOnPiece(p, line.coords[k], line.coords[k + 1])

\* geometry.bounds: <<minx, miny, maxx, maxy>>
GeomCoords(geom) ==
    IF geom.kind = "LineString" THEN Range(geom.coords)
    ELSE UNION {Range(geom.geoms[g].coords) : g \in DOMAIN geom.geoms}

Bounds(geom) ==
    LET xs == {c[1] : c \in GeomCoords(geom)}
        ys == {c[2] : c \in GeomCoords(geom)}
    IN  <<SetMin(xs), SetMin(ys), SetMax(xs), SetMax(ys)>>

\* point.buffer(r).bounds
BufferBounds(p, r) == <<p[1] - r, p[2] - r, p[1] + r, p[2] + r>>

\* Two boxes meet (their borders count).
BoundsIntersect(a, b) ==
    /\ a[1] <= b[3] /\ b[1] <= a[3]
    /\ a[2] <= b[4] /\ b[2] <= a[4]

\* The road segments of the world: a straight road, a road of two parts
\* that starts where the first ends, and a road with a bend.
WorldRoads ==
    <<[geometry |-> LineString(<<P(0, 0), P(100, 0)>>)],
      [geometry |-> MultiLineString(<<LineString(<<P(100, 0), P(100, 40)>>),
                                      LineString(<<P(100, 40), P(100, 80)>>)>>)],
      [geometry |-> LineString(<<P(20, 200), P(20, 160), P(80, 160)>>)]>>

RoadRow(idx) == WorldRoads[idx]

\* The rnc_gdf a matcher is made on.
RoadIndexes == {{}, {1, 2}, {3}, {1, 2, 3}}

\* The points a track is made of.
TrackPoints ==
    {P(50, 0), P(50, -40), P(50, -50), P(50, -60), P(100, 0),
     P(130, -40), P(140, -40), P(60, 190), P(110, 210)}

\* The longest track.
MaxPoints == 3

RECURSIVE SeqsOf(_, _)
SeqsOf(S, n) ==
    IF n = 0 THEN {<<>>}
    ELSE {Append(q, x) : q \in SeqsOf(S, n - 1), x \in S}

\* The points the tracks of more than two points are made of.
LongTrackPoints == {P(50, 0), P(50, -40), P(50, -60), P(100, 0)}

Tracks ==
    SeqsOf(TrackPoints, 2) \cup UNION {SeqsOf(LongTrackPoints, n) : n \in 3..MaxPoints}

\* buffer_tolerance_m of the matchers.
Tolerances == {50, 35}

------------------------------------------------------------------------------
(* MapMatcher *)

\* MapMatcher.__init__: buffer_deg = buffer_tolerance_m / 111000.
MapMatcher(gpx_linestring, rnc_gdf, buffer_tolerance_m) ==
    [kind |-> "MapMatcher", gpx |-> gpx_linestring, rnc_gdf |-> rnc_gdf,
     buffer_m |-> buffer_tolerance_m, buffer_deg |-> Metres(buffer_tolerance_m)]

\* list(sindex.intersection(buffer_geom.bounds)), as a set: the rows whose
\* bounding box meets the one of the point's buffer.
possible_matches_idx(point) ==
    {idx \in matcher.rnc_gdf.index :
        BoundsIntersect(Bounds(RoadRow(idx).geometry),
                        BufferBounds(point, matcher.buffer_deg))}

\* "dist < min_dist", min_dist being inf while there is no best match.
Closer(dist, best) == IsNone(best) \/ dist < best.min_dist

\* The loop over the candidates, in the order the spatial index gave them.
RECURSIVE NearestLoop(_, _, _, _)
NearestLoop(point, order, k, best) ==
    IF k > Len(order) THEN best
    ELSE LET dist == GeomDistance(point, RoadRow(order[k]).geometry)
         IN  NearestLoop(point, order, k + 1,
                 IF Closer(dist, best)
                 THEN [kind |-> "best", min_dist |-> dist, best_match |-> order[k]]
                 ELSE best)

\* dist_m = min_dist * 111000 (degrees and metres are kept in one unit).
DistM(min_dist) == min_dist

\* A tolerance test that leaves out the distance equal to the tolerance.
BelowTolerance(dist_m, buffer_m) == dist_m < Metres(buffer_m)

\* dist_m <= self.buffer_m
WithinTolerance(dist_m, buffer_m) == dist_m <= Metres(buffer_m)

\* A pass that does not count the point without a candidate.
MatchPointUncounted(run, order) ==
    LET point == matcher.gpx.coords[run.i + 1]
        best == NearestLoop(point, order, 1, None)
    IN  IF order = <<>> THEN [run EXCEPT !.i = @ + 1]
        ELSE IF WithinTolerance(DistM(best.min_dist), matcher.buffer_m) /\ ~IsNone(best)
        THEN [run EXCEPT
                !.matched_segments = Append(@, [index |-> best.best_match,
                                                distance_m |-> DistM(best.min_dist),
                                                orden |-> run.i]),
                !.distances = Append(@, DistM(best.min_dist)),
                !.i = @ + 1]
        ELSE [run EXCEPT !.unmatched_count = @ + 1, !.i = @ + 1]

\* One pass of the loop over gpx_points, on point number run.i.
match_point(run, order) ==
    LET point == matcher.gpx.coords[run.i + 1]
        best == NearestLoop(point, order, 1, None)
        unmatched == [run EXCEPT !.unmatched_count = @ + 1, !.i = @ + 1]
    IN  IF order = <<>> THEN unmatched
        ELSE IF WithinTolerance(DistM(best.min_dist), matcher.buffer_m) /\ ~IsNone(best)
        THEN [run EXCEPT
                !.matched_segments = Append(@, [index |-> best.best_match,
                                                distance_m |-> DistM(best.min_dist),
                                                orden |-> run.i]),
                !.distances = Append(@, DistM(best.min_dist)),
                !.i = @ + 1]
        ELSE unmatched

\* The closest point of a matched segment, as _build_aligned_geometry
\* finds it; in a MultiLineString, on the first of the nearest lines.
ClosestOnGeometry(p, geom) ==
    IF geom.kind = "LineString" THEN ClosestOnLine(p, geom)
    ELSE LET D(g) == GeomDistance(p, geom.geoms[g])
             least == SetMin({D(g) : g \in DOMAIN geom.geoms})
             first == SetMin({g \in DOMAIN geom.geoms : D(g) = least})
         IN  ClosestOnLine(p, geom.geoms[first])

\* A list without its consecutive duplicates.
RECURSIVE UniqueCoords(_)
UniqueCoords(coords) ==
    IF Len(coords) <= 1 THEN coords
    ELSE LET front == UniqueCoords(SubSeq(coords, 1, Len(coords) - 1))
         IN  IF coords[Len(coords)] # front[Len(front)]
             THEN Append(front, coords[Len(coords)]) ELSE front

\* An aligned geometry that never falls back to the track.
AlignedFromMatches(matched_segments) ==
    LineString(UniqueCoords(
        [k \in DOMAIN matched_segments |->
            ClosestOnGeometry(matcher.gpx.coords[matched_segments[k].orden + 1],
                              RoadRow(matched_segments[k].index).geometry)]))

\* _build_aligned_geometry
build_aligned_geometry(matched_segments) ==
    IF matched_segments = <<>> THEN matcher.gpx
    ELSE
    LET aligned_coords ==
            [k \in DOMAIN matched_segments |->
                ClosestOnGeometry(matcher.gpx.coords[matched_segments[k].orden + 1],
                                  RoadRow(matched_segments[k].index).geometry)]
        unique_coords == UniqueCoords(aligned_coords)
    IN  IF Len(aligned_coords) < 2 THEN matcher.gpx
        ELSE IF Len(unique_coords) < 2 THEN matcher.gpx
        ELSE LineString(unique_coords)

\* The sum of a list of numbers.
RECURSIVE SumSeq(_)
SumSeq(q) == IF q = <<>> THEN 0 ELSE q[1] + SumSeq(Tail(q))

\* The dict match returns.  confidence and match_rate_pct are kept in
\* tenths of a percent and distance_avg_m in tenths of a metre
\* (round(..., 1)); a mean of 0 is falsy, and reported as None.
match_result(run) ==
    LET n == Len(run.distances)
        total == SumSeq(run.distances)
        confidence ==
            IF n = 0 THEN 0
            ELSE Max(0, RoundDiv(10 * (100 * n * matcher.buffer_m - total),
                                 n * matcher.buffer_m))
    IN  [matched_segments |-> run.matched_segments,
         aligned_geometry |-> build_aligned_geometry(run.matched_segments),
         confidence |-> confidence,
         distance_avg_m |-> IF n = 0 \/ total = 0 THEN None
                            ELSE [kind |-> "float", tenths |-> RoundDiv(total, 10 * n)],
         unmatched_points |-> run.unmatched_count,
         total_points |-> run.total_points,
         match_rate_pct |-> IF run.total_points > 0
                            THEN RoundDiv(1000 * (run.total_points - run.unmatched_count),
                                          run.total_points)
                            ELSE 0]

InitMM ==
    /\ matcher \in {MapMatcher(LineString(track), GeoDataFrame(index), tolerance) :
                        track \in Tracks, index \in RoadIndexes, tolerance \in Tolerances}
    /\ match_run = NoResult
    /\ IdleNet
    /\ IdleSA
    /\ IdleRA
    /\ IdleExt

\* match() is called: the locals before the loop.
MatchStart ==
    /\ match_run = NoResult
    /\ match_run' = [pc |-> "loop", i |-> 0,
                     total_points |-> Len(matcher.gpx.coords),
                     matched_segments |-> <<>>, distances |-> <<>>,
                     unmatched_count |-> 0]
    /\ UNCHANGED <<netVars, saVars, matcher, raVars, extVars>>

\* One pass of the loop; the spatial index gives the candidates in an
\* order of its own.
MatchPoint ==
    /\ match_run # NoResult
    /\ match_run.pc = "loop"
    /\ match_run.i < match_run.total_points
    /\ \E order \in Orders(possible_matches_idx(matcher.gpx.coords[match_run.i + 1])) :
          match_run' = match_point(match_run, order)
    /\ UNCHANGED <<netVars, saVars, matcher, raVars, extVars>>

\* After the loop: the metrics, the aligned geometry, the return.
MatchReturn ==
    /\ match_run # NoResult
    /\ match_run.pc = "loop"
    /\ match_run.i = match_run.total_points
    /\ match_run' = [pc |-> "done", i |-> match_run.i,
                     total_points |-> match_run.total_points,
                     result |-> match_result(match_run)]
    /\ UNCHANGED <<netVars, saVars, matcher, raVars, extVars>>

NextMM ==
    \/ MatchStart
    \/ MatchPoint
    \/ MatchReturn

SpecMM == InitMM /\ [][NextMM]_vars

------------------------------------------------------------------------------
(* Claims about MapMatcher *)

\* The entries match has recorded so far.
Recorded ==
    IF match_run = NoResult THEN <<>>
    ELSE IF match_run.pc = "done" THEN match_run.result.matched_segments
    ELSE match_run.matched_segments

\* The track points the loop has been through (numbered from 0).
Processed == IF match_run = NoResult THEN {} ELSE 0..(match_run.i - 1)

\* The distances from track point j to every segment of rnc_gdf.
SegmentDistances(j) ==
    {GeomDistance(matcher.gpx.coords[j + 1], RoadRow(idx).geometry) :
        idx \in matcher.rnc_gdf.index}

EntriesOf(j) == {k \in DOMAIN Recorded : Recorded[k].orden = j}

\* C6: a track point is matched iff its least distance to any segment is
\* at most the tolerance, whatever the other points are; it is matched to
\* a segment at that least distance, which is the distance recorded.
C6_NearestWithinTolerance ==
    \A j \in Processed :
        LET within == /\ SegmentDistances(j) # {}
                      /\ SetMin(SegmentDistances(j)) <= Metres(matcher.buffer_m)
        IN  /\ (EntriesOf(j) # {}) <=> within
            /\ \A k \in EntriesOf(j) :
                  /\ Recorded[k].distance_m = SetMin(SegmentDistances(j))
                  /\ Recorded[k].index \in matcher.rnc_gdf.index
                  /\ GeomDistance(matcher.gpx.coords[j + 1],
                                  RoadRow(Recorded[k].index).geometry)
                       = SetMin(SegmentDistances(j))

\* C6 witness: with a tolerance of 50 m the point 60 m from the nearest
\* segment is unmatched and the point 40 m from it is matched at 40 m.
C6_Witness ==
    /\ match_run # NoResult
    /\ match_run.pc = "done"
    /\ matcher.buffer_m = 50
    /\ SegmentDistances(0) # {} /\ SetMin(SegmentDistances(0)) = Metres(60)
    /\ SegmentDistances(1) # {} /\ SetMin(SegmentDistances(1)) = Metres(40)
    /\ match_run.result.unmatched_points = 1
    /\ Len(Recorded) = 1
    /\ Recorded[1].orden = 1
    /\ Recorded[1].distance_m = Metres(40)

MatchDone == match_run # NoResult /\ match_run.pc = "done"

\* The matched points projected on their segments, and how many of these
\* coordinates differ from the one before.
ProjectedCoords ==
    [k \in DOMAIN Recorded |->
        ClosestOnGeometry(matcher.gpx.coords[Recorded[k].orden + 1],
                          RoadRow(Recorded[k].index).geometry)]

DistinctConsecutive ==
    IF Len(ProjectedCoords) = 0 THEN 0
    ELSE 1 + Cardinality({k \in 2..Len(ProjectedCoords) :
                            ProjectedCoords[k] # ProjectedCoords[k - 1]})

\* C13: when no track point matches, match returns an empty matched list,
\* confidence 0 and the original track as aligned geometry; the aligned
\* geometry is the original track too whenever the matched points give
\* fewer than two distinct consecutive projected coordinates.
C13_NoMatchDegradesToTrack ==
    MatchDone =>
        /\ match_run.result.unmatched_points = match_run.total_points =>
              /\ match_run.result.matched_segments = <<>>
              /\ match_run.result.confidence = 0
              /\ match_run.result.aligned_geometry = matcher.gpx
        /\ DistinctConsecutive < 2 =>
              match_run.result.aligned_geometry = matcher.gpx

\* C13 witness: a track near roads, none of its points within the
\* tolerance of a segment.
C13_Witness ==
    /\ MatchDone
    /\ matcher.rnc_gdf.index # {}
    /\ \E j \in Processed : possible_matches_idx(matcher.gpx.coords[j + 1]) # {}
    /\ match_run.result.unmatched_points = match_run.total_points
    /\ match_run.result.aligned_geometry = matcher.gpx

\* The matched list of a finished match, and the sum of its distances (in
\* hundredths of a metre).
MatchedList == match_run.result.matched_segments

MatchedTotal == SumSeq([k \in DOMAIN MatchedList |-> MatchedList[k].distance_m])

\* C25: whenever a track point is matched, distance_avg_m is a number, the
\* mean of the recorded matched distances (to the tenth of a metre it is
\* reported in), for every value of that mean, 0 included.
C25_AverageDistanceReported ==
    (MatchDone /\ MatchedList # <<>>) =>
        /\ ~IsNone(match_run.result.distance_avg_m)
        /\ match_run.result.distance_avg_m.tenths =
              RoundDiv(MatchedTotal, 10 * Len(MatchedList))

\* C26 as stated: matched + unmatched_points = total_points, the track
\* point numbers of the matched list are strictly increasing, and
\* match_rate_pct (in tenths of a percent) is matched / total x 100.
CountsAddUp ==
    /\ Len(MatchedList) + match_run.result.unmatched_points = match_run.result.total_points
    /\ match_run.result.total_points = Len(matcher.gpx.coords)

StrictlyIncreasing ==
    /\ \A k \in DOMAIN MatchedList : MatchedList[k].orden \in 0..(Len(matcher.gpx.coords) - 1)
    /\ \A j, k \in DOMAIN MatchedList : j < k => MatchedList[j].orden < MatchedList[k].orden

C26_MatchCounts_Original ==
    MatchDone =>
        /\ CountsAddUp
        /\ StrictlyIncreasing
        /\ match_run.result.match_rate_pct * match_run.result.total_points =
              1000 * Len(MatchedList)

\* C26 amended: the same, match_rate_pct being that ratio rounded to one
\* decimal.
C26_MatchCountsRounded ==
    MatchDone =>
        /\ CountsAddUp
        /\ StrictlyIncreasing
        /\ match_run.result.match_rate_pct =
              RoundDiv(1000 * Len(MatchedList), match_run.result.total_points)

\* C26 witness: of three track points the first and the last are matched,
\* and the rate is 66.7.
C26_Witness ==
    /\ MatchDone
    /\ match_run.result.total_points = 3
    /\ Len(MatchedList) = 2
    /\ MatchedList[1].orden = 0 /\ MatchedList[2].orden = 2
    /\ match_run.result.unmatched_points = 1
    /\ match_run.result.match_rate_pct = 667

------------------------------------------------------------------------------
(* RoadAnalyzer *)

(* geometry.length is kept in millionths of a degree, so that              *)
(* geometry.length * 111 is a length in millionths of a kilometre, and     *)
(* round(v, 3) gives thousandths of a kilometre.                           *)

Text(s) == [kind |-> "str", text |-> s]

\* The road segments of the world, with their attribute cells.
AttributeRoads ==
    <<[geometry |-> [kind |-> "LineString", length |-> 1004],
       COND_PAV |-> Text("Con pavimento"), ADMINISTRA |-> Text("Federal"),
       TIPO_VIAL |-> Text("Carretera")],
      [geometry |-> [kind |-> "LineString", length |-> 2004],
       COND_PAV |-> Text("Sin pavimento"), ADMINISTRA |-> Text("Estatal"),
       TIPO_VIAL |-> NoneCell],
      [geometry |-> [kind |-> "LineString", length |-> 1506],
       COND_PAV |-> Text("N/A"), ADMINISTRA |-> NaNCell,
       TIPO_VIAL |-> Text("Camino")],
      [geometry |-> [kind |-> "LineString", length |-> 3002],
       COND_PAV |-> NoneCell, ADMINISTRA |-> Text(" n/a "),
       TIPO_VIAL |-> Text("")]>>

AttributeColumns == {"geometry", "COND_PAV", "ADMINISTRA", "TIPO_VIAL"}

\* RoadAnalyzer.__init__
RoadAnalyzer(index, columns) ==
    [kind |-> "RoadAnalyzer",
     rnc_gdf |-> [kind |-> "GeoDataFrame", index |-> index, columns |-> columns]]

\* self.rnc_gdf.loc[idx]
RoadLoc(idx) == AttributeRoads[idx]

\* row.get(column, 'N/A')
RowGet(row, column) ==
    IF column \in road_analyzer.rnc_gdf.columns THEN row[column] ELSE Text("N/A")

\* str(val).strip(), for the strings of the world.
Strip(s) == IF s = " n/a " THEN "n/a" ELSE s

\* "not val or pd.isna(val)"
Missing(val) ==
    \/ val.kind = "None"
    \/ val.kind = "nan"
    \/ val.kind = "str" /\ val.text = ""

\* "not val or pd.isna(val) or str(val).strip() in ['N/A', 'n/a', '']"
IsNA(val) ==
    \/ Missing(val)
    \/ val.kind = "str" /\ Strip(val.text) \in {"N/A", "n/a", ""}

\* A surface key that leaves a segment without a surface under "N/A".
SuperficieKeyAsFound(row) ==
    LET sup == RowGet(row, "COND_PAV")
    IN  IF IsNA(sup) THEN "N/A" ELSE sup.text

\* The keys under which a segment is counted.
SuperficieKey(row) ==
    LET sup == RowGet(row, "COND_PAV")
    IN  IF IsNA(sup) THEN "Con pavimento" ELSE sup.text

AdministracionKey(row) ==
    LET admin == RowGet(row, "ADMINISTRA")
    IN  IF IsNA(admin) THEN "Municipal" ELSE admin.text

TipoKey(row) ==
    LET tipo == RowGet(row, "TIPO_VIAL")
    IN  IF Missing(tipo) THEN "N/A" ELSE tipo.text

\* round(v, 3)
Round3(v) == RoundDiv(v, 1000)

\* A segment counted once for each point matched to it.
KmPerMatch(segment_length_km, count) == segment_length_km * count

\* km_segmento = segment_length_km
KmSegmento(segment_length_km, count) == segment_length_km

\* RoadAnalyzer._empty_stats
road_empty_stats ==
    [superficie |-> EmptyMap,
     administracion |-> EmptyMap,
     tipo_vialidad |-> EmptyMap,
     na_info |-> [superficie_na_km |-> 0, administracion_na_km |-> 0]]

\* RoadAnalyzer.analyze
road_analyze(matched_segments) ==
    LET unique_indices == {matched_segments[k].index : k \in DOMAIN matched_segments}
    IN  IF unique_indices = {} THEN road_empty_stats
        ELSE
        LET segment_usage ==
                [idx \in unique_indices |->
                    Cardinality({k \in DOMAIN matched_segments :
                                    matched_segments[k].index = idx})]
            segment_lengths ==
                [idx \in unique_indices |-> RoadLoc(idx).geometry.length * 111]
            distancia_rnc_km == SumOver(unique_indices, segment_lengths)
            km_segmento ==
                [idx \in unique_indices |->
                    KmSegmento(segment_lengths[idx], segment_usage[idx])]
            Counter(Key(_)) ==
                [key \in {Key(RoadLoc(idx)) : idx \in unique_indices} |->
                    SumOver({idx \in unique_indices : Key(RoadLoc(idx)) = key},
                            km_segmento)]
            Rounded(counter) == [key \in DOMAIN counter |-> Round3(counter[key])]
            na_superficie ==
                {idx \in unique_indices : IsNA(RowGet(RoadLoc(idx), "COND_PAV"))}
            na_administracion ==
                {idx \in unique_indices : IsNA(RowGet(RoadLoc(idx), "ADMINISTRA"))}
        IN  [distancia_rnc_km |-> Round3(distancia_rnc_km),
             superficie |-> Rounded(Counter(SuperficieKey)),
             administracion |-> Rounded(Counter(AdministracionKey)),
             tipo_vialidad |-> Rounded(Counter(TipoKey)),
             na_info |->
                [superficie_na_km |-> Round3(SumOver(na_superficie, km_segmento)),
                 administracion_na_km |->
                    Round3(SumOver(na_administracion, km_segmento))]]

\* The longest list of matches.
MaxMatches == 3

\* The lists of matches over the rows of rnc_gdf: a map matcher's output.
MatchLists(index) ==
    {[k \in DOMAIN q |-> [index |-> q[k], distance_m |-> 0, orden |-> k - 1]] :
        q \in UNION {SeqsOf(index, n) : n \in 0..MaxMatches}}

InitRA ==
    /\ road_analyzer \in {RoadAnalyzer(index, columns) :
            index \in {DOMAIN AttributeRoads, {1, 2}},
            columns \in {AttributeColumns, AttributeColumns \ {"ADMINISTRA"}}}
    /\ road_call = NoResult
    /\ road_result = NoResult
    /\ IdleNet
    /\ IdleSA
    /\ IdleMM
    /\ IdleExt

\* A request runs RoadAnalyzer.analyze on a list of matches.
AnalyzeRoads ==
    /\ road_call = NoResult
    /\ \E matched_segments \in MatchLists(road_analyzer.rnc_gdf.index) :
          /\ road_call' = [op |-> "analyze", matched_segments |-> matched_segments]
          /\ road_result' = road_analyze(matched_segments)
    /\ UNCHANGED <<netVars, saVars, mmVars, road_analyzer, extVars>>

NextRA == AnalyzeRoads

SpecRA == InitRA /\ [][NextRA]_vars

------------------------------------------------------------------------------
(* Claims about RoadAnalyzer *)

RoadsAnalyzed == road_call # NoResult

\* The distinct segments of the list given, and the sum of their lengths
\* (millionths of a kilometre), each counted once.
DistinctSegments ==
    {road_call.matched_segments[k].index : k \in DOMAIN road_call.matched_segments}

DistinctLength ==
    SumOver(DistinctSegments,
            [idx \in DistinctSegments |-> AttributeRoads[idx].geometry.length * 111])

\* The sum of the lengths a result gives for the categories of a family.
CategorySum(family) == SumOver(DOMAIN family, family)

\* C7 as stated (for a list that is not empty): the per-surface and the
\* per-administration lengths returned each sum to distancia_rnc_km, the
\* sum of the lengths of the distinct segments.
C7_CategorySumsEqualTotal_Original ==
    RoadsAnalyzed /\ DistinctSegments # {} =>
        /\ "distancia_rnc_km" \in DOMAIN road_result
        /\ road_result.distancia_rnc_km = Round3(DistinctLength)
        /\ CategorySum(road_result.superficie) = road_result.distancia_rnc_km
        /\ CategorySum(road_result.administracion) = road_result.distancia_rnc_km

\* C7 amended: for a list that is not empty distancia_rnc_km is the sum of
\* the lengths of the distinct segments, each counted once, rounded to 3
\* decimals, and the lengths of a family of categories, each rounded to 3
\* decimals, sum to that sum to within 0.0005 km for each category; for an
\* empty list the families are empty and there is no distancia_rnc_km.
C7_CategorySumsWithinRounding ==
    RoadsAnalyzed =>
        IF DistinctSegments = {}
        THEN /\ "distancia_rnc_km" \notin DOMAIN road_result
             /\ DOMAIN road_result.superficie = {}
             /\ DOMAIN road_result.administracion = {}
        ELSE /\ road_result.distancia_rnc_km = Round3(DistinctLength)
             /\ \A family \in {road_result.superficie, road_result.administracion} :
                   Abs(1000 * CategorySum(family) - DistinctLength)
                      <= 500 * Cardinality(DOMAIN family)

\* C7 witness: a segment matched by two points and a second segment of
\* another surface, where the rounded surfaces do not add up to the
\* rounded total.
C7_Witness ==
    /\ RoadsAnalyzed
    /\ Cardinality(DistinctSegments) < Len(road_call.matched_segments)
    /\ DistinctSegments # {}
    /\ Cardinality(DOMAIN road_result.superficie) = 2
    /\ CategorySum(road_result.superficie) # road_result.distancia_rnc_km

\* The cell of a segment in a column is missing (no such column, None, NaN
\* or an empty text) or reads N/A.
Defaulted(idx, column) ==
    \/ column \notin road_analyzer.rnc_gdf.columns
    \/ AttributeRoads[idx][column].kind \in {"None", "nan"}
    \/ /\ AttributeRoads[idx][column].kind = "str"
       /\ AttributeRoads[idx][column].text \in {"", "N/A", "n/a", " n/a "}

\* The distinct segments given whose cell in the column is defaulted, and
\* those whose cell reads as the category does.
DefaultedSegments(column) == {idx \in DistinctSegments : Defaulted(idx, column)}

NamedSegments(column, category) ==
    {idx \in DistinctSegments \ DefaultedSegments(column) :
        AttributeRoads[idx][column].text = category}

\* The summed length of some segments, in millionths of a kilometre.
LengthOf(segments) ==
    SumOver(segments, [idx \in segments |-> AttributeRoads[idx].geometry.length * 111])

\* The defaulted segments of a column are counted in the category, whose
\* length is theirs and that of the segments named so, and the audit counter
\* does not exceed it.
BucketedUnder(family, column, category, na_km) ==
    /\ DOMAIN family \cap {"", "N/A", "n/a", " n/a "} = {}
    /\ DefaultedSegments(column) # {} =>
          /\ category \in DOMAIN family
          /\ family[category]
                = Round3(LengthOf(DefaultedSegments(column) \cup NamedSegments(column, category)))
          /\ na_km <= family[category]

\* C20 as stated (for a list that is not empty): the segments without a
\* surface are under 'Con pavimento', those without an administration
\* under 'Municipal', and the audit counters equal the summed length of the
\* distinct defaulted segments and do not exceed their category.
C20_DefaultedAudit_Original ==
    (RoadsAnalyzed /\ DistinctSegments # {}) =>
        /\ BucketedUnder(road_result.superficie, "COND_PAV", "Con pavimento",
                         road_result.na_info.superficie_na_km)
        /\ BucketedUnder(road_result.administracion, "ADMINISTRA", "Municipal",
                         road_result.na_info.administracion_na_km)
        /\ 1000 * road_result.na_info.superficie_na_km
              = LengthOf(DefaultedSegments("COND_PAV"))
        /\ 1000 * road_result.na_info.administracion_na_km
              = LengthOf(DefaultedSegments("ADMINISTRA"))

\* C20 amended: as stated, with the audit counters equal to the summed
\* length of the distinct defaulted segments rounded to 3 decimals.
C20_DefaultedAuditRounded ==
    (RoadsAnalyzed /\ DistinctSegments # {}) =>
        /\ BucketedUnder(road_result.superficie, "COND_PAV", "Con pavimento",
                         road_result.na_info.superficie_na_km)
        /\ BucketedUnder(road_result.administracion, "ADMINISTRA", "Municipal",
                         road_result.na_info.administracion_na_km)
        /\ road_result.na_info.superficie_na_km
              = Round3(LengthOf(DefaultedSegments("COND_PAV")))
        /\ road_result.na_info.administracion_na_km
              = Round3(LengthOf(DefaultedSegments("ADMINISTRA")))

\* C20 witness: a segment without a surface matched twice and a segment
\* that reads 'Con pavimento', so that the audit counter is positive and
\* below its category; a segment without an administration is among them.
C20_Witness ==
    /\ RoadsAnalyzed
    /\ Cardinality(DistinctSegments) < Len(road_call.matched_segments)
    /\ DefaultedSegments("COND_PAV") # {}
    /\ NamedSegments("COND_PAV", "Con pavimento") # {}
    /\ DefaultedSegments("ADMINISTRA") # {}
    /\ 0 < road_result.na_info.superficie_na_km
    /\ road_result.na_info.superficie_na_km < road_result.superficie["Con pavimento"]

------------------------------------------------------------------------------
(* _aggregate_population on any collection of blocks *)

InitAgg ==
    /\ agg_run \in {[pc |-> "called", index |-> index] :
                        index \in SUBSET DOMAIN WorldBlocks}
    /\ IdleNet
    /\ IdleSA
    /\ IdleMM
    /\ IdleRA
    /\ IdleApp
    /\ IdleLD
    /\ IdleDash

\* _aggregate_population runs on the collection and returns.
AggregatePopulation ==
    /\ agg_run.pc = "called"
    /\ agg_run' = [pc |-> "done", index |-> agg_run.index,
                   stats |-> aggregate_population(agg_run.index)]
    /\ UNCHANGED <<netVars, saVars, mmVars, raVars, appVars, ldVars, dashVars>>

NextAgg == AggregatePopulation

SpecAgg == InitAgg /\ [][NextAgg]_vars

Aggregated == agg_run # NoResult /\ agg_run.pc = "done"

\* C12 as stated: the percentage is the disability count divided by the
\* total population, times 100, when the total is positive, and 0 when
\* the total is 0.
C12_PercentageExact_Original ==
    Aggregated =>
        LET total == agg_run.stats.poblacion_total
            disc == agg_run.stats.discapacidad.total
            porcentaje == agg_run.stats.discapacidad.porcentaje
        IN  IF total > 0 THEN porcentaje * total = disc * 10000
            ELSE porcentaje = 0

\* C12 amended: the call returns statistics for every collection; the
\* percentage is the disability count divided by the total population,
\* times 100, rounded to two decimals, when the total is positive, and 0
\* when the total is 0; total 100 with count 0 gives 0.
C12_PercentageRounded ==
    Aggregated =>
        LET total == agg_run.stats.poblacion_total
            disc == agg_run.stats.discapacidad.total
            porcentaje == agg_run.stats.discapacidad.porcentaje
        IN  /\ agg_run.stats.kind = "stats"
            /\ total > 0 => 2 * Abs(porcentaje * total - disc * 10000) <= total
            /\ total <= 0 => porcentaje = 0
            /\ (total = 100 /\ disc = 0) => porcentaje = 0

\* C12 witness: a collection whose percentage has more than two decimals.
C12_Witness ==
    /\ Aggregated
    /\ agg_run.stats.poblacion_total > 0
    /\ agg_run.stats.discapacidad.porcentaje * agg_run.stats.poblacion_total
          # agg_run.stats.discapacidad.total * 10000

------------------------------------------------------------------------------
(* The route endpoints of app.py, AnalysisService.analyze_route and the *)
(* NetworkAnalyzer singleton *)

\* The number of requests served at the same time.
NumRequests == 2

\* The number of road networks uploaded.
MaxUploads == 1

Procs == 1..NumRequests

\* The routes that have been uploaded before the requests.
RouteIds == {"r1", "r2"}

\* The id save_gpx gives to a route uploaded by a request of p.
NewRouteId(p) == "new" \o ToString(p)

\* Track points of a GPX file: two ordinary ones, one with longitude 0 and
\* one with latitude 0.
GpxA == [longitude |-> -98, latitude |-> 20]

GpxB == [longitude |-> -97, latitude |-> 20]

GpxZeroLon == [longitude |-> 0, latitude |-> 20]

GpxZeroLat == [longitude |-> -98, latitude |-> 0]

Gpx(points) == [kind |-> "gpx", points |-> points]

\* The GPX files of the world: None (no file), or the points of the track.
GpxTracks ==
    {None} \cup
    {Gpx(pts) :
        pts \in {<<>>, <<GpxA>>, <<GpxA, GpxZeroLon>>, <<GpxZeroLon, GpxA, GpxZeroLat>>,
                 <<GpxA, GpxB>>, <<GpxA, GpxZeroLon, GpxB>>}}

\* Every point of the file, whatever its coordinates.
AllPoints(gpx) == gpx.points

\* GPXExtractor._extract_points: "if point.longitude and point.latitude".
extract_points(gpx) ==
    SelectSeq(gpx.points, LAMBDA point : point.longitude # 0 /\ point.latitude # 0)

\* GPXExtractor.get_linestring
get_linestring(track_points) ==
    IF Len(track_points) < 2 THEN None
    ELSE LineString([k \in DOMAIN track_points |->
                        <<track_points[k].longitude, track_points[k].latitude>>])

\* "gpx_linestring is None or len(list(gpx_linestring.coords)) < 2"
TooFewPoints(gpx_linestring) ==
    IsNone(gpx_linestring) \/ Len(gpx_linestring.coords) < 2

\* A route record of routes.json as save_gpx makes it.
NewRoute(route_id) == [id |-> route_id, analyzed |-> FALSE, analysis |-> None]

\* The analysis dict of a route, as far as it tells whose it is.
AnalysisOf(route_id, track_points) ==
    [kind |-> "analysis", route_id |-> route_id, puntos_totales |-> Len(track_points)]

\* flask's jsonify(body), status
Response(status, body) == [status |-> status, body |-> body]

\* What a request holds in its local variables before it is served.
Request(op, route_id) ==
    [op |-> op, route_id |-> route_id, pc |-> "start", db |-> EmptyMap,
     track_points |-> <<>>, stages |-> {}, analysis |-> None, response |-> None,
     started_at |-> 0, built |-> None, analyzers |-> <<>>]

\* POST /api/analysis/<route_id>
AnalyzeRequest(route_id) == Request("analyze", route_id)

\* POST /api/routes
UploadRequest(p) == Request("upload", NewRouteId(p))

\* DELETE /api/routes/<route_id>
DeleteRequest(route_id) == Request("delete", route_id)

\* The requests p may serve: the first analyses r1, the second analyses a
\* route (r9 was never uploaded), uploads one or deletes r2, and the others
\* upload a route or delete r2.
RequestsOf(p) ==
    IF p = 1 THEN {AnalyzeRequest("r1")}
    ELSE IF p = 2
    THEN {AnalyzeRequest(route_id) : route_id \in RouteIds \cup {"r9"}}
            \cup {UploadRequest(p), DeleteRequest("r2")}
    ELSE {UploadRequest(p), DeleteRequest("r2")}

\* The requests served together.
RequestMixes ==
    {mix \in [Procs -> UNION {RequestsOf(p) : p \in Procs}] :
        \A p \in Procs : mix[p] \in RequestsOf(p)}

\* The GPX files on disk: any track for r1, a track of two points for r2.
GpxWorlds ==
    {[route_id \in RouteIds |-> IF route_id = "r1" THEN gpx ELSE Gpx(<<GpxA, GpxB>>)] :
        gpx \in GpxTracks}

InitApp ==
    /\ routes_db = [route_id \in RouteIds |-> NewRoute(route_id)]
    /\ gpx_files \in GpxWorlds
    /\ results_files = EmptyMap
    /\ shapefiles \in {{}, {"localities", "municipalities", "manzanas"}}
    /\ rnc_upload = 0
    /\ network_analyzer_instance = None
    /\ requests \in RequestMixes
    /\ agg_run = NoResult
    /\ IdleNet
    /\ IdleSA
    /\ IdleMM
    /\ IdleRA
    /\ IdleLD
    /\ IdleDash

At(p, op, pc) == requests[p].op = op /\ requests[p].pc = pc

\* The request of p ends with a response.
Respond(p, status, body) ==
    [requests EXCEPT ![p].pc = "done", ![p].response = Response(status, body)]

\* upload_shapefile('road_network'): save_shapefile replaces the files of
\* the road network and the config records it as loaded.
UploadShapefile ==
    /\ rnc_upload < MaxUploads
    /\ rnc_upload' = rnc_upload + 1
    /\ shapefiles' = shapefiles \cup {"road_network"}
    /\ UNCHANGED <<routes_db, gpx_files, results_files, network_analyzer_instance, requests>>

\* analyze_route (app.py): load_routes_db and the lookup of the route.
AnalyzeRouteLoad(p) ==
    /\ At(p, "analyze", "start")
    /\ requests' =
         IF requests[p].route_id \in DOMAIN routes_db
         THEN [requests EXCEPT ![p].pc = "extract", ![p].db = routes_db,
                 ![p].started_at = rnc_upload]
         ELSE [Respond(p, 404, [error |-> "Route not found"]) EXCEPT ![p].db = routes_db]
    /\ UNCHANGED <<routes_db, gpx_files, results_files, shapefiles, rnc_upload,
                   network_analyzer_instance>>

\* AnalysisService.analyze_route up to the linestring test; a failure is
\* returned to the client as it is.
AnalyzeRouteExtract(p) ==
    /\ At(p, "analyze", "extract")
    /\ LET route_id == requests[p].route_id
           Fail(msg) == Respond(p, 200, [success |-> FALSE, error |-> msg])
       IN  requests' =
             IF route_id \notin DOMAIN gpx_files \/ IsNone(gpx_files[route_id])
             THEN Fail("GPX file not found")
             ELSE IF TooFewPoints(get_linestring(extract_points(gpx_files[route_id])))
             THEN Fail("Route has less than 2 points")
             ELSE [requests EXCEPT ![p].pc = "match",
                     ![p].track_points = extract_points(gpx_files[route_id])]
    /\ UNCHANGED <<routes_db, gpx_files, results_files, shapefiles, rnc_upload,
                   network_analyzer_instance>>

\* The shapefiles are loaded; map matching and road attributes with a road
\* network. An exception is caught and returned as a failure.
AnalyzeRouteMatch(p) ==
    /\ At(p, "analyze", "match")
    /\ LET stages == IF "road_network" \in shapefiles THEN {"map_matching"} ELSE {}
       IN  \E raised \in BOOLEAN :
              requests' =
                IF raised
                THEN [Respond(p, 200, [success |-> FALSE, error |-> "exception"])
                        EXCEPT ![p].stages = stages]
                ELSE [requests EXCEPT ![p].pc = "get", ![p].stages = stages]
    /\ UNCHANGED <<routes_db, gpx_files, results_files, shapefiles, rnc_upload,
                   network_analyzer_instance>>

\* get_network_analyzer: "if _network_analyzer_instance is None".
GetNetworkAnalyzerTest(p) ==
    /\ At(p, "analyze", "get")
    /\ requests' = [requests EXCEPT
                      ![p].pc = IF IsNone(network_analyzer_instance) THEN "init" ELSE "return"]
    /\ UNCHANGED <<routes_db, gpx_files, results_files, shapefiles, rnc_upload,
                   network_analyzer_instance>>

\* NetworkAnalyzer.__init__ and the start of _load_and_build_network: the
\* road network on disk is read and the graph is begun.
NetworkAnalyzerInit(p) ==
    /\ At(p, "analyze", "init")
    /\ requests' = [requests EXCEPT ![p].pc = "build",
                      ![p].built = [kind |-> "NetworkAnalyzer",
                                    oid |-> <<p, Len(requests[p].analyzers) + 1>>,
                                    built_from |-> rnc_upload,
                                    complete |-> FALSE]]
    /\ UNCHANGED <<routes_db, gpx_files, results_files, shapefiles, rnc_upload,
                   network_analyzer_instance>>

\* The rest of _load_and_build_network: edges, node coordinates, KD-tree.
NetworkAnalyzerBuild(p) ==
    /\ At(p, "analyze", "build")
    /\ requests' = [requests EXCEPT ![p].pc = "assign", ![p].built.complete = TRUE]
    /\ UNCHANGED <<routes_db, gpx_files, results_files, shapefiles, rnc_upload,
                   network_analyzer_instance>>

\* "_network_analyzer_instance = NetworkAnalyzer(data_folder)"
GetNetworkAnalyzerAssign(p) ==
    /\ At(p, "analyze", "assign")
    /\ network_analyzer_instance' = requests[p].built
    /\ requests' = [requests EXCEPT ![p].pc = "return", ![p].built = None]
    /\ UNCHANGED <<routes_db, gpx_files, results_files, shapefiles, rnc_upload>>

\* "return _network_analyzer_instance": the first call is followed by the
\* detection of localities, the second (in ServiceAreaAnalyzer.__init__) by
\* the service area analysis and the compilation of the analysis dict.
GetNetworkAnalyzerReturn(p) ==
    /\ At(p, "analyze", "return")
    /\ LET analyzers == Append(requests[p].analyzers, network_analyzer_instance)
           localities == IF shapefiles \cap {"localities", "municipalities"} # {}
                         THEN {"localities"} ELSE {}
       IN  requests' =
             IF Len(analyzers) = 1
             THEN [requests EXCEPT ![p].pc = "get", ![p].analyzers = analyzers,
                     ![p].stages = @ \cup localities]
             ELSE [requests EXCEPT ![p].pc = "save", ![p].analyzers = analyzers,
                     ![p].stages = @ \cup {"service_area"},
                     ![p].analysis =
                        AnalysisOf(requests[p].route_id, requests[p].track_points)]
    /\ UNCHANGED <<routes_db, gpx_files, results_files, shapefiles, rnc_upload,
                   network_analyzer_instance>>

\* _save_results writes <route_id>_results.json; analyze_route returns.
AnalyzeRouteSave(p) ==
    /\ At(p, "analyze", "save")
    /\ results_files' = With(results_files, requests[p].route_id, requests[p].analysis)
    /\ requests' = [requests EXCEPT ![p].pc = "mark"]
    /\ UNCHANGED <<routes_db, gpx_files, shapefiles, rnc_upload, network_analyzer_instance>>

\* analyze_route (app.py) after a success: the route is updated in the db
\* loaded at the start, and save_routes_db writes that db.
AnalyzeRouteMark(p) ==
    /\ At(p, "analyze", "mark")
    /\ LET route_id == requests[p].route_id
           db == [requests[p].db EXCEPT
                    ![route_id] = [id |-> route_id, analyzed |-> TRUE,
                                   analysis |-> requests[p].analysis]]
       IN  /\ routes_db' = db
           /\ requests' = [Respond(p, 200, [success |-> TRUE,
                                            analysis |-> requests[p].analysis])
                             EXCEPT ![p].db = db]
    /\ UNCHANGED <<gpx_files, results_files, shapefiles, rnc_upload,
                   network_analyzer_instance>>

\* upload_route: save_gpx writes the GPX file and makes the route record;
\* load_routes_db.
UploadRouteLoad(p) ==
    /\ At(p, "upload", "start")
    /\ gpx_files' = With(gpx_files, requests[p].route_id, Gpx(<<GpxA, GpxB>>))
    /\ requests' = [requests EXCEPT ![p].pc = "append", ![p].db = routes_db]
    /\ UNCHANGED <<routes_db, results_files, shapefiles, rnc_upload,
                   network_analyzer_instance>>

\* upload_route: the route is appended to the db loaded and the db saved.
UploadRouteSave(p) ==
    /\ At(p, "upload", "append")
    /\ LET route_id == requests[p].route_id
           db == With(requests[p].db, route_id, NewRoute(route_id))
       IN  /\ routes_db' = db
           /\ requests' = [Respond(p, 200, [success |-> TRUE, route |-> NewRoute(route_id)])
                             EXCEPT ![p].db = db]
    /\ UNCHANGED <<gpx_files, results_files, shapefiles, rnc_upload,
                   network_analyzer_instance>>

\* delete_route: load_routes_db and the lookup of the route.
DeleteRouteLoad(p) ==
    /\ At(p, "delete", "start")
    /\ requests' =
         IF requests[p].route_id \in DOMAIN routes_db
         THEN [requests EXCEPT ![p].pc = "remove", ![p].db = routes_db]
         ELSE [Respond(p, 404, [error |-> "Route not found"]) EXCEPT ![p].db = routes_db]
    /\ UNCHANGED <<routes_db, gpx_files, results_files, shapefiles, rnc_upload,
                   network_analyzer_instance>>

\* delete_route: the db loaded is saved without the route and delete_gpx
\* removes its GPX file.
DeleteRouteSave(p) ==
    /\ At(p, "delete", "remove")
    /\ LET route_id == requests[p].route_id
           db == [id \in DOMAIN requests[p].db \ {route_id} |-> requests[p].db[id]]
       IN  /\ routes_db' = db
           /\ gpx_files' = [id \in DOMAIN gpx_files \ {route_id} |-> gpx_files[id]]
           /\ requests' = [Respond(p, 200, [success |-> TRUE]) EXCEPT ![p].db = db]
    /\ UNCHANGED <<results_files, shapefiles, rnc_upload, network_analyzer_instance>>

NextApp ==
    /\ \/ UploadShapefile
       \/ \E p \in Procs :
            \/ AnalyzeRouteLoad(p)
            \/ AnalyzeRouteExtract(p)
            \/ AnalyzeRouteMatch(p)
            \/ GetNetworkAnalyzerTest(p)
            \/ NetworkAnalyzerInit(p)
            \/ NetworkAnalyzerBuild(p)
            \/ GetNetworkAnalyzerAssign(p)
            \/ GetNetworkAnalyzerReturn(p)
            \/ AnalyzeRouteSave(p)
            \/ AnalyzeRouteMark(p)
            \/ UploadRouteLoad(p)
            \/ UploadRouteSave(p)
            \/ DeleteRouteLoad(p)
            \/ DeleteRouteSave(p)
    /\ UNCHANGED <<netVars, saVars, mmVars, raVars, agg_run, ldVars, dashVars>>

SpecApp == InitApp /\ [][NextApp]_vars

------------------------------------------------------------------------------
(* Claims about the analysis of one route *)

\* A valid point has a longitude and a latitude other than 0.
ValidPoint(point) == point.longitude # 0 /\ point.latitude # 0

\* The valid points of a route's GPX file (none without a file).
ValidPoints(route_id) ==
    IF IsNone(gpx_files[route_id]) THEN <<>>
    ELSE SelectSeq(gpx_files[route_id].points, ValidPoint)

\* The route has a GPX file with fewer than two valid points.
ShortTrack(route_id) ==
    /\ route_id \in DOMAIN gpx_files
    /\ ~IsNone(gpx_files[route_id])
    /\ Len(ValidPoints(route_id)) < 2

\* C14: an analysis of a track with fewer than two valid points fails with
\* the error "Route has less than 2 points" before any stage is run; no
\* results file is written for the route and it is not marked analyzed.
C14_ShortTrackFailsEarly ==
    \A route_id \in DOMAIN routes_db :
        ShortTrack(route_id) =>
            /\ route_id \notin DOMAIN results_files
            /\ ~routes_db[route_id].analyzed
            /\ \A p \in Procs :
                  (requests[p].op = "analyze" /\ requests[p].route_id = route_id) =>
                      /\ requests[p].stages = {}
                      /\ requests[p].analyzers = <<>>
                      /\ requests[p].pc \in {"start", "extract", "done"}
                      /\ requests[p].pc = "done" =>
                            /\ requests[p].response.body.success = FALSE
                            /\ requests[p].response.body.error
                                 = "Route has less than 2 points"

\* C14 witness: the analysis of a track with one valid point among three
\* has failed, while another request went through its stages.
C14_Witness ==
    \E p, q \in Procs :
        /\ requests[p].op = "analyze" /\ requests[p].pc = "done"
        /\ ShortTrack(requests[p].route_id)
        /\ Len(gpx_files[requests[p].route_id].points) = 3
        /\ requests[p].response.body.success = FALSE
        /\ requests[q].op = "analyze" /\ requests[q].pc = "done"
        /\ requests[q].stages # {}
        /\ requests[q].response.body.success = TRUE

------------------------------------------------------------------------------
(* Claims about the NetworkAnalyzer singleton *)

\* The analyzers an analysis has obtained from get_network_analyzer.
AnalyzersOf(p) == {requests[p].analyzers[k] : k \in DOMAIN requests[p].analyzers}

\* C16: an analysis that starts after the upload of a road network uses an
\* analyzer built from the network that was the latest when it started (or
\* from a later one).
C16_LatestNetworkUsed ==
    \A p \in Procs :
        (requests[p].op = "analyze" /\ requests[p].started_at > 0) =>
            \A analyzer \in AnalyzersOf(p) : analyzer.built_from >= requests[p].started_at

\* The singleton is absent or complete, and so is every analyzer an
\* analysis has obtained.
SingletonComplete ==
    /\ IsNone(network_analyzer_instance) \/ network_analyzer_instance.complete
    /\ \A p \in Procs : \A analyzer \in AnalyzersOf(p) : analyzer.complete

\* C17: under every interleaving the singleton is absent or complete, and
\* an analysis obtains the same analyzer from each of its calls of
\* get_network_analyzer.
C17_CompleteAndSame ==
    /\ SingletonComplete
    /\ \A p \in Procs :
          \A a1, a2 \in AnalyzersOf(p) : a1.oid = a2.oid

------------------------------------------------------------------------------
(* Claims about routes.json under concurrent requests *)

\* Every request has been answered.
AllDone == \A p \in Procs : requests[p].pc = "done"

\* The request of p was answered with success.
Succeeded(p, op) ==
    /\ requests[p].op = op
    /\ requests[p].pc = "done"
    /\ requests[p].response.status = 200
    /\ requests[p].response.body.success

\* The routes removed by a successful delete request.
Deleted == {requests[p].route_id : p \in {q \in Procs : Succeeded(q, "delete")}}

\* The routes added by a successful upload request.
Uploaded == {requests[p].route_id : p \in {q \in Procs : Succeeded(q, "upload")}}

\* Two analysis requests for different routes have succeeded.
TwoAnalyses ==
    \E p, q \in Procs :
        /\ Succeeded(p, "analyze") /\ Succeeded(q, "analyze")
        /\ requests[p].route_id # requests[q].route_id

\* C18: once two concurrent analyses of different routes and the requests
\* beside them are all answered with success, every route whose analysis
\* succeeded (and that no request deleted) is recorded as analyzed
\* with its own analysis, every route uploaded and not deleted has its
\* record, and no deleted route has one.
C18_RecordsKept ==
    (AllDone /\ TwoAnalyses) =>
        /\ \A p \in Procs :
              (Succeeded(p, "analyze") /\ requests[p].route_id \notin Deleted) =>
                  /\ requests[p].route_id \in DOMAIN routes_db
                  /\ routes_db[requests[p].route_id].analyzed
                  /\ routes_db[requests[p].route_id].analysis = requests[p].analysis
        /\ (RouteIds \cup Uploaded) \ Deleted \subseteq DOMAIN routes_db
        /\ DOMAIN routes_db \cap Deleted = {}

------------------------------------------------------------------------------
(* NetworkAnalyzer: construction from any list of segments *)

\* The longest list of segments of a road network.
MaxRows == 3

\* A row of the road network shapefile; geometry is None or a LineString.
Segment(u, v, w, geometry) ==
    [UNION_INI |-> u, UNION_FIN |-> v, LONGITUD |-> w, geometry |-> geometry]

\* The segments of the world: two segments 1 -- 2 of different length and
\* shape, a third drawn from 2 to 1 that puts node 2 at 410, a segment
\* 2 -- 3, a segment 4 -- 3 whose node 4 lies where node 2 does, and three
\* segments with no geometry, one coordinate and no coordinate.
WorldSegments ==
    {Segment(1, 2, 300, [kind |-> "LineString", coords |-> <<0, 400>>]),
     Segment(1, 2, 500, [kind |-> "LineString", coords |-> <<0, 250, 400>>]),
     Segment(2, 1, 700, [kind |-> "LineString", coords |-> <<410, 0>>]),
     Segment(2, 3, 300, [kind |-> "LineString", coords |-> <<400, 800>>]),
     Segment(4, 3, 300, [kind |-> "LineString", coords |-> <<400, 800>>]),
     Segment(1, 3, 400, None),
     Segment(3, 5, 100, [kind |-> "LineString", coords |-> <<800>>]),
     Segment(5, 6, 100, [kind |-> "LineString", coords |-> <<>>])}

\* The road networks built: no shapefile, or up to MaxRows segments.
SegmentLists ==
    {[exists |-> FALSE, rows |-> <<>>]} \cup
    {[exists |-> TRUE, rows |-> rows] :
        rows \in UNION {[1..n -> WorldSegments] : n \in 1..MaxRows}}

\* cKDTree(coords) raises ValueError for an empty list of coordinates.
BuildRaises(shp) == shp.exists /\ load_and_build_network(shp).node_ids = <<>>

\* NetworkAnalyzer.__init__ before _load_and_build_network.
InitBuild ==
    /\ rnc_rows \in SegmentLists
    /\ graph = None
    /\ node_coords = EmptyMap
    /\ node_ids = <<>>
    /\ kd_tie \in {"first", "last"}
    /\ route = <<0, 0>>
    /\ runs = [d \in MaxDistances |-> {}]
    /\ last = NoResult
    /\ IdleSA
    /\ IdleMM
    /\ IdleRA
    /\ IdleExt

\* _load_and_build_network and _build_spatial_index; when cKDTree raises
\* the graph and the (empty) tables are as the loop left them.
LoadAndBuildNetwork ==
    /\ last = NoResult
    /\ LET built == load_and_build_network(rnc_rows)
       IN  /\ graph' = built.graph
           /\ node_coords' = built.node_coords
           /\ node_ids' = built.node_ids
    /\ last' = [op |-> "build", raised |-> BuildRaises(rnc_rows)]
    /\ UNCHANGED <<rnc_rows, kd_tie, route, runs, saVars, mmVars, raVars, extVars>>

NextBuild == LoadAndBuildNetwork

SpecBuild == InitBuild /\ [][NextBuild]_vars

------------------------------------------------------------------------------
(* Claims about the construction of the graph *)

\* Construction has run; it has run to its end.
BuildRan == last # NoResult /\ last.op = "build"

Built == BuildRan /\ rnc_rows.exists /\ ~last.raised

\* The rows with a geometry of two coordinates or more, by position.
ValidRows ==
    {i \in DOMAIN rnc_rows.rows :
        /\ ~IsNone(rnc_rows.rows[i].geometry)
        /\ Len(rnc_rows.rows[i].geometry.coords) >= 2}

EndsOf(i) == {rnc_rows.rows[i].UNION_INI, rnc_rows.rows[i].UNION_FIN}

\* The length of the shortest path between two nodes of the graph.
PathLength(u, v) == single_source_dijkstra_path_length(graph, u, 100000)[v]

\* C21: every valid segment is an edge of the graph with its own length
\* and geometry, also when another segment joins the same two nodes, and
\* the shortest path between its ends is no longer than the segment.
C21_ParallelEdgesKept ==
    Built =>
        \A i \in ValidRows :
            LET row == rnc_rows.rows[i]
            IN  /\ EndsOf(i) \in Edges(graph)
                /\ graph.edge[EndsOf(i)] = [weight |-> row.LONGITUD, geometry |-> row.geometry]
                /\ PathLength(row.UNION_INI, row.UNION_FIN) <= row.LONGITUD

\* The coordinate of node n in the first valid row that names it: the
\* first coordinate of the row when n is its UNION_INI, else the last.
FirstCoord(n) ==
    LET i == SetMin({j \in ValidRows : n \in EndsOf(j)})
        row == rnc_rows.rows[i]
    IN  IF row.UNION_INI = n THEN row.geometry.coords[1]
        ELSE row.geometry.coords[Len(row.geometry.coords)]

\* The nodes the valid rows name.
ValidNodes == UNION {EndsOf(i) : i \in ValidRows}

\* C27: with a valid segment in the list construction does not fail, every
\* node has the coordinate of its first occurrence in load order, and two
\* nodes are joined only by a segment that names both: nodes at the same
\* coordinate stay apart.
C27_FirstCoordinateWins ==
    (BuildRan /\ ValidRows # {}) =>
        /\ ~last.raised
        /\ DOMAIN node_coords = ValidNodes
        /\ \A n \in ValidNodes : node_coords[n] = FirstCoord(n)
        /\ \A e \in Edges(graph) : \E i \in ValidRows : EndsOf(i) = e
        /\ \A i \in 1..Len(node_ids) : \A j \in 1..Len(node_ids) :
              node_ids[i] = node_ids[j] => i = j

\* C27 witness: node 2 was drawn at 400 and then at 410 and is at 400;
\* node 4 lies at 400 too and is a node of its own, not joined to node 2.
C27_Witness ==
    /\ Built
    /\ {2, 4} \subseteq DOMAIN node_coords
    /\ node_coords[2] = 400 /\ node_coords[4] = 400
    /\ \E i \in ValidRows :
          rnc_rows.rows[i].UNION_INI = 2 /\ rnc_rows.rows[i].geometry.coords[1] = 410
    /\ {2, 4} \notin Edges(graph)

\* The graph, the coordinate table and the node-id list hold the ends of
\* the valid rows and nothing else.
OnlyValidRowsCount ==
    /\ Edges(graph) = {EndsOf(i) : i \in ValidRows}
    /\ DOMAIN node_coords = ValidNodes
    /\ GraphNodes(graph) = DOMAIN node_coords
    /\ {node_ids[k] : k \in 1..Len(node_ids)} = DOMAIN node_coords

\* C28 as stated: a segment with no geometry or fewer than two
\* coordinates adds no edge and no node coordinate, construction does not
\* fail, and the graph's nodes are those with a coordinate and an entry in
\* the spatial index.
C28_DegenerateSkipped_Original ==
    (BuildRan /\ rnc_rows.exists) =>
        /\ ~last.raised
        /\ OnlyValidRowsCount

\* C28 amended: as stated when some segment of the list is valid; when
\* none is, nothing is added and the spatial index raises.
C28_DegenerateSkipped ==
    (BuildRan /\ rnc_rows.exists) =>
        /\ OnlyValidRowsCount
        /\ last.raised <=> ValidRows = {}

\* C28 witness: a list with a segment without geometry, one with a single
\* coordinate and a valid one was built.
C28_Witness ==
    /\ Built
    /\ Cardinality(ValidRows) = 1
    /\ \E i \in DOMAIN rnc_rows.rows : IsNone(rnc_rows.rows[i].geometry)
    /\ \E i \in DOMAIN rnc_rows.rows :
          /\ ~IsNone(rnc_rows.rows[i].geometry)
          /\ Len(rnc_rows.rows[i].geometry.coords) = 1
    /\ Cardinality(Edges(graph)) = 1

------------------------------------------------------------------------------
(* LocalityDetector *)

\* The localities of the Marco Geoestadistico: geometry, CVE_MUN, AMBITO.
\* 1 lies on the short route; 2 starts 40 m past its end and extends far
\* beyond the network; 3 is off the route, next to the last chain node;
\* 4 has no CVE_MUN; 5 has an AMBITO that is neither Urbana nor Rural.
LocalityRow(geom, cve_mun, ambito) ==
    [geometry |-> geom, CVE_MUN |-> cve_mun, AMBITO |-> ambito]

WorldLocalities ==
    [i \in 1..5 |->
        CASE i = 1 -> LocalityRow(<<80, 120>>, "008", "Urbana")
          [] i = 2 -> LocalityRow(<<540, 3000>>, "008", "Rural")
          [] i = 3 -> LocalityRow(<<1300, 1500>>, "076", "Urbana")
          [] i = 4 -> LocalityRow(<<300, 350>>, "", "Urbana")
          [] OTHER -> LocalityRow(<<200, 260>>, "008", "Otro")]

\* The localities shapefiles a detector is made on.
LocalityIndexes == {{}, {2}, {1, 3}, DOMAIN WorldLocalities}

\* CVE_MUN of the municipalities of the world.
CveMun(name) == IF name = "Apan" THEN "008" ELSE "076"

\* The municipios_data keys made from the municipalities meeting the
\* track's buffer, and from those meeting the service area polygon.
MunicipiosInBuffer(buffer_m) ==
    IF IsNone(municipios_gdf) THEN {}
    ELSE {CveMun(name) : name \in {n \in DOMAIN municipios_gdf.geometry :
              IntersectsBuffer(municipios_gdf.geometry[n], route, buffer_m)}}

MunicipiosInPolygon(polygon) ==
    IF IsNone(municipios_gdf) THEN {}
    ELSE {CveMun(name) : name \in {n \in DOMAIN municipios_gdf.geometry :
              IntersectsPolygon(municipios_gdf.geometry[n], polygon)}}

\* The loop over the localities kept: a locality with a CVE_MUN goes under
\* its municipality (added when missing), as urban or rural by its AMBITO.
ProcessLocalities(kept, municipios_data, network_analysis) ==
    LET with_mun == {i \in kept : WorldLocalities[i].CVE_MUN # ""}
        urbanas == {i \in with_mun : WorldLocalities[i].AMBITO = "Urbana"}
        rurales == {i \in with_mun : WorldLocalities[i].AMBITO = "Rural"}
        municipios == municipios_data \cup {WorldLocalities[i].CVE_MUN : i \in with_mun}
    IN  [municipios |-> municipios,
         localidades_urbanas |-> urbanas,
         localidades_rurales |-> rurales,
         total_municipios |-> Cardinality(municipios),
         total_urbanas |-> Cardinality(urbanas),
         total_rurales |-> Cardinality(rurales),
         total_localidades |-> Cardinality(urbanas) + Cardinality(rurales),
         network_analysis |-> network_analysis]

\* _empty_result: no network_analysis key.
ld_empty_result ==
    [municipios |-> {}, localidades_urbanas |-> {}, localidades_rurales |-> {},
     total_municipios |-> 0, total_urbanas |-> 0, total_rurales |-> 0,
     total_localidades |-> 0]

\* The localities and municipalities meeting the track's buffer of buffer_m.
InBuffer(geom, buffer_m) == IntersectsBuffer(geom, route, buffer_m)

\* _detect_euclidean
detect_euclidean(buffer_m) ==
    ProcessLocalities(
        {i \in marco_gdf.index : InBuffer(WorldLocalities[i].geometry, buffer_m)},
        MunicipiosInBuffer(buffer_m),
        FALSE)

\* _detect_with_network
detect_with_network(order, buffer_m) ==
    LET node_distances == calculate_service_area(order, buffer_m)
        service_area_nodes == DOMAIN node_distances
        service_area_polygon == get_service_area_polygon(service_area_nodes, 50)
    IN  IF service_area_nodes = {} THEN detect_euclidean(buffer_m)
        ELSE IF IsNone(service_area_polygon) THEN detect_euclidean(buffer_m)
        ELSE LET localities_intersect ==
                    {i \in marco_gdf.index :
                        IntersectsPolygon(WorldLocalities[i].geometry, service_area_polygon)}
             IN  ProcessLocalities(
                    {i \in localities_intersect :
                        is_point_in_service_area(Centroid(WorldLocalities[i].geometry),
                            service_area_nodes, node_distances, buffer_m).reachable},
                    MunicipiosInPolygon(service_area_polygon),
                    TRUE)

\* LocalityDetector.detect
detect(order, buffer_m, use_network) ==
    IF use_network /\ NetworkAvailable THEN detect_with_network(order, buffer_m)
    ELSE LET intersecting == {i \in marco_gdf.index :
                                InBuffer(WorldLocalities[i].geometry, buffer_m)}
             municipios_data == MunicipiosInBuffer(buffer_m)
             whole == ProcessLocalities(intersecting, municipios_data, FALSE)
         IN  IF intersecting = {} /\ municipios_data = {} THEN ld_empty_result
             ELSE [k \in DOMAIN whole \ {"network_analysis"} |-> whole[k]]

\* A detector is made on a localities shapefile, with or without the
\* municipalities, and the network analyzer get_network_analyzer gave (None
\* when it raised).
InitLD ==
    /\ rnc_rows \in AnalyzerShapefiles
    /\ LET raised == rnc_rows.exists /\ rnc_rows.rows = <<>>
           built == load_and_build_network(rnc_rows)
       IN  /\ network_analyzer = IF raised THEN None ELSE [kind |-> "NetworkAnalyzer"]
           /\ graph = IF raised THEN None ELSE built.graph
           /\ node_coords = built.node_coords
           /\ node_ids = built.node_ids
    /\ kd_tie \in {"first", "last"}
    /\ route \in AnalyzedRoutes
    /\ runs = [d \in MaxDistances |-> {}]
    /\ last = NoResult
    /\ manzanas_gdf = None
    /\ municipios_gdf \in {None, WorldMunicipios}
    /\ sa_call = NoResult
    /\ sa_result = NoResult
    /\ marco_gdf \in {GeoDataFrame(index) : index \in LocalityIndexes}
    /\ ld_call = NoResult
    /\ ld_result = NoResult
    /\ IdleMM
    /\ IdleRA
    /\ agg_run = NoResult
    /\ IdleApp
    /\ IdleDash

\* A request runs LocalityDetector.detect on the route.
Detect ==
    \E buffer_m \in MaxDistances, use_network \in BOOLEAN :
        \E order \in Orders(find_nearest_nodes_on_route(route)) :
            /\ ld_call' = [op |-> "detect", buffer_m |-> buffer_m,
                           use_network |-> use_network]
            /\ ld_result' = detect(order, buffer_m, use_network)
            /\ UNCHANGED <<netVars, saVars, mmVars, raVars, agg_run, appVars,
                           marco_gdf, dashVars>>

NextLD == Detect

SpecLD == InitLD /\ [][NextLD]_vars

------------------------------------------------------------------------------
(* Claims about LocalityDetector *)

\* detect returned in network mode.
NetworkMode ==
    /\ ld_call.op = "detect"
    /\ "network_analysis" \in DOMAIN ld_result
    /\ ld_result.network_analysis

\* What the result lists.
Listed == ld_result.localidades_urbanas \cup ld_result.localidades_rurales

\* The localities a result can list at all: with a CVE_MUN, urban or rural.
Listable ==
    {i \in marco_gdf.index :
        /\ WorldLocalities[i].CVE_MUN # ""
        /\ WorldLocalities[i].AMBITO \in {"Urbana", "Rural"}}

\* C23: in network mode detect lists every locality whose geometry meets
\* the direct 50 m corridor around the track, whatever the distance of its
\* centroid from the graph's nodes.
C23_CorridorLocalitiesListed ==
    NetworkMode =>
        \A i \in Listable :
            InBuffer(WorldLocalities[i].geometry, DirectBuffer) => i \in Listed

------------------------------------------------------------------------------
(* app.py: the municipality dashboard and its block caches *)

\* The municipalities asked for, and the blocks of manzanas.shp.
DashMunicipios == {"Apan", "Tula"}

DashBlocks == {1, 2}

\* d.get(key)
Get(d, key) == IF key \in DOMAIN d THEN d[key] ELSE None

\* What ServiceAreaAnalyzer.analyze can hand back to the dashboard: an
\* empty result (no gdf keys), a success without a municipality filter
\* (no unserved collection), a success with one (the unserved collection is
\* the rest of the municipality's blocks, possibly none), or an exception.
AnalyzeResults ==
    {[success |-> FALSE, unserved_stats |-> None]} \cup
    {[success |-> TRUE, unserved_manzanas_gdf |-> None,
      served_manzanas_gdf |-> GeoDataFrame(served)] :
        served \in SUBSET DashBlocks \ {{}}} \cup
    {[success |-> TRUE, unserved_manzanas_gdf |-> GeoDataFrame(unserved),
      served_manzanas_gdf |-> GeoDataFrame(DashBlocks \ (unserved \cup out))] :
        unserved \in SUBSET DashBlocks,
        out \in {{}} \cup {{b} : b \in DashBlocks}} \cup
    {[raised |-> TRUE]}

\* The analyzed routes of a municipality at the time of a request.
AnalyzedRouteSets == {{}, {"r1"}}

\* _calculate_combined_service_area, as far as the collections go.
calculate_combined_service_area(analyzed_routes, result) ==
    IF analyzed_routes = {} THEN [manzanas_count |-> 0]
    ELSE IF "raised" \in DOMAIN result THEN [unserved_manzanas_gdf |-> None]
    ELSE [unserved_manzanas_gdf |-> Get(result, "unserved_manzanas_gdf"),
          served_manzanas_gdf |-> Get(result, "served_manzanas_gdf")]

\* "gdf is not None and len(gdf) > 0"
NonEmptyGdf(gdf) == ~IsNone(gdf) /\ gdf.index # {}

\* cache[municipio] = gdf.to_crs(epsg=4326) when the collection has a row
\* (to_crs changes coordinates, not which blocks there are).
StoreInCache(cache, municipio, gdf) ==
    IF NonEmptyGdf(gdf) THEN With(cache, municipio, gdf) ELSE cache

\* _manzanas_gdf_to_geojson: the features, one for each block.
manzanas_gdf_to_geojson(gdf) ==
    IF IsNone(gdf) \/ gdf.index = {} THEN {} ELSE gdf.index

InitDash ==
    /\ IdleNet
    /\ IdleSA
    /\ IdleMM
    /\ IdleRA
    /\ agg_run = NoResult
    /\ IdleApp
    /\ IdleLD
    /\ IdleDash

\* GET /api/dashboard/municipio/<municipio>
GetMunicipioDashboard ==
    \E municipio \in DashMunicipios, analyzed_routes \in AnalyzedRouteSets,
       result \in AnalyzeResults :
        LET service_area_result == calculate_combined_service_area(analyzed_routes, result)
            unserved_gdf == Get(service_area_result, "unserved_manzanas_gdf")
            served_gdf == Get(service_area_result, "served_manzanas_gdf")
        IN  /\ unserved_manzanas_cache' =
                  StoreInCache(unserved_manzanas_cache, municipio, unserved_gdf)
            /\ served_manzanas_cache' =
                  StoreInCache(served_manzanas_cache, municipio, served_gdf)
            /\ dash_computed' = With(dash_computed, municipio,
                                     [unserved |-> unserved_gdf, served |-> served_gdf])
            /\ dash_response' = [op |-> "dashboard", municipio |-> municipio]
            /\ UNCHANGED <<netVars, saVars, mmVars, raVars, agg_run, appVars, ldVars>>

\* GET /api/dashboard/municipio/<municipio>/unserved-manzanas
GetUnservedManzanasGeojson ==
    \E municipio \in DashMunicipios :
        /\ dash_response' =
              [op |-> "unserved-manzanas", municipio |-> municipio,
               features |-> IF municipio \notin DOMAIN unserved_manzanas_cache THEN {}
                            ELSE manzanas_gdf_to_geojson(unserved_manzanas_cache[municipio])]
        /\ UNCHANGED <<netVars, saVars, mmVars, raVars, agg_run, appVars, ldVars,
                       unserved_manzanas_cache, served_manzanas_cache, dash_computed>>

\* GET /api/dashboard/municipio/<municipio>/served-manzanas
GetServedManzanasGeojson ==
    \E municipio \in DashMunicipios :
        /\ dash_response' =
              [op |-> "served-manzanas", municipio |-> municipio,
               features |-> IF municipio \notin DOMAIN served_manzanas_cache THEN {}
                            ELSE manzanas_gdf_to_geojson(served_manzanas_cache[municipio])]
        /\ UNCHANGED <<netVars, saVars, mmVars, raVars, agg_run, appVars, ldVars,
                       unserved_manzanas_cache, served_manzanas_cache, dash_computed>>

NextDash ==
    \/ GetMunicipioDashboard
    \/ GetUnservedManzanasGeojson
    \/ GetServedManzanasGeojson

SpecDash == InitDash /\ [][NextDash]_vars

------------------------------------------------------------------------------
(* Claims about the dashboard's block endpoints *)

\* The blocks of a collection the dashboard computed (none for None).
BlocksOf(gdf) == IF IsNone(gdf) THEN {} ELSE gdf.index

\* C30: after any sequence of dashboard requests, the served-manzanas and
\* unserved-manzanas endpoints of a municipality return exactly the served
\* and unserved blocks the most recent dashboard request for it computed,
\* an empty collection when that computation found none.
C30_EndpointsReturnLatest ==
    /\ (dash_response.op = "unserved-manzanas"
        /\ dash_response.municipio \in DOMAIN dash_computed) =>
          dash_response.features = BlocksOf(dash_computed[dash_response.municipio].unserved)
    /\ (dash_response.op = "served-manzanas"
        /\ dash_response.municipio \in DOMAIN dash_computed) =>
          dash_response.features = BlocksOf(dash_computed[dash_response.municipio].served)

====
